---- MODULE Spec2Model ----
(***************************************************************************)
(* PyTerraria: the positional byte reader (BinaryString.py), the tile      *)
(* codec (Tile.py) and the world loader (World.py, Header.py,              *)
(* WorldFlags.py, Chest.py) as state machines.                             *)
(*                                                                         *)
(* Conventions.  Python integers are unbounded; the enumerated inputs keep *)
(* every integer value below 2^31.  Values that do not fit (64-bit         *)
(* integers) or are not integers (floats) are carried as their raw         *)
(* little-endian byte tuples.  A Python bool is the integer 0 or 1.        *)
(* A raised exception is the name of its class in exc; "none" otherwise.   *)
(***************************************************************************)
EXTENDS Integers, Sequences, FiniteSets, TLC

VARIABLES
    content,    \* BinaryString._content: the byte buffer (1-based here)
    pos,        \* BinaryString._pos
    exc,        \* exception raised by the last operation, or "none"
    result,     \* value returned by the last operation
    call,       \* the last operation invoked: [op, arg, pos0]
    world,      \* the World object's fields
    loc,        \* local variables of the handler in progress
    pc          \* control position of the driver (World.Load)

vars == <<content, pos, exc, result, call, world, loc, pc>>

(***************************************************************************)
(* Bounds of the model                                                     *)
(***************************************************************************)
MaxLen == 3
MaxGroups == 3
MaxBits == 9
MaxSeek == 2

(***************************************************************************)
(* Python integer operators on non-negative operands                       *)
(***************************************************************************)
RECURSIVE Pow(_, _)
Pow(b, n) ==
    IF n = 0 THEN 1 ELSE b * Pow(b, n - 1)

RECURSIVE BitAnd(_, _)
BitAnd(a, b) ==
    IF a = 0 \/ b = 0 THEN 0
    ELSE (a % 2) * (b % 2) + 2 * BitAnd(a \div 2, b \div 2)

RECURSIVE BitOr(_, _)
BitOr(a, b) ==
    IF a = 0 THEN b
    ELSE IF b = 0 THEN a
    ELSE (IF a % 2 = 1 \/ b % 2 = 1 THEN 1 ELSE 0) + 2 * BitOr(a \div 2, b \div 2)

ShiftLeft(a, n) ==
    IF a = 0 THEN 0 ELSE a * Pow(2, n)

ShiftRight(a, n) ==
    a \div Pow(2, n)

(***************************************************************************)
(* BinaryString.py: the struct type table                                  *)
(***************************************************************************)
BooleanType == [c |-> "?", n |-> 1]
ByteType == [c |-> "B", n |-> 1]
SInt8Type == [c |-> "b", n |-> 1]
UInt8Type == [c |-> "B", n |-> 1]
SInt16Type == [c |-> "h", n |-> 2]
UInt16Type == [c |-> "H", n |-> 2]
SInt32Type == [c |-> "i", n |-> 4]
UInt32Type == [c |-> "I", n |-> 4]
SInt64Type == [c |-> "q", n |-> 8]
UInt64Type == [c |-> "Q", n |-> 8]
SingleType == [c |-> "f", n |-> 4]
DoubleType == [c |-> "d", n |-> 8]

\* the value of an operation that raised (nothing is returned)
NoValue == <<"raised">>

PyNone == <<"None">>

NoWorld == <<"no world">>

\* bytes p .. p+n-1 (0-based) of buffer c
Slice(c, p, n) ==
    SubSeq(c, p + 1, p + n)

RECURSIVE LEUnsigned(_)
LEUnsigned(bs) ==
    IF bs = <<>> THEN 0 ELSE Head(bs) + 256 * LEUnsigned(Tail(bs))

LESigned(bs) ==
    LET n == Len(bs)
        top == bs[n]
    IN  LEUnsigned(SubSeq(bs, 1, n - 1))
          + Pow(256, n - 1) * (IF top >= 128 THEN top - 256 ELSE top)

\* struct.unpack_from("<" + t.c, content, offset)[0]
StructValue(t, bs) ==
    CASE t.c = "?" -> (IF bs[1] = 0 THEN 0 ELSE 1)
      [] t.c \in {"B", "H", "I"} -> LEUnsigned(bs)
      [] t.c \in {"b", "h", "i"} -> LESigned(bs)
      [] OTHER -> <<t.c>> \o bs

\* reader(self) without "self._pos += nbytes"
ReaderNoAdvance(t, c, p) ==
    IF p + t.n > Len(c)
    THEN [exc |-> "struct.error", value |-> NoValue, pos |-> p]
    ELSE [exc |-> "none", value |-> StructValue(t, Slice(c, p, t.n)), pos |-> p]

\* reader(self) of _make_reader: [exc, value, pos]
Reader(t, c, p) ==
    IF p + t.n > Len(c)
    THEN [exc |-> "struct.error", value |-> NoValue, pos |-> p]
    ELSE [exc |-> "none", value |-> StructValue(t, Slice(c, p, t.n)), pos |-> p + t.n]

\* checker(self) of _make_reader(t, bounds=(low, high))
Checker(t, low, high, c, p) ==
    LET Checked(r) ==
            IF r.exc # "none" THEN r
            ELSE IF ~(low <= r.value /\ r.value <= high)
                 THEN [exc |-> "DataError", value |-> NoValue, pos |-> r.pos]
                 ELSE r
    IN  Checked(Reader(t, c, p))

readBoolean(c, p) == Checker(BooleanType, 0, 1, c, p)
readByte(c, p) == Reader(ByteType, c, p)
readInt8(c, p) == Reader(SInt8Type, c, p)
readUInt8(c, p) == Reader(UInt8Type, c, p)
readInt16(c, p) == Reader(SInt16Type, c, p)
readUInt16(c, p) == Reader(UInt16Type, c, p)
readInt32(c, p) == Reader(SInt32Type, c, p)
readUInt32(c, p) == Reader(UInt32Type, c, p)
readInt64(c, p) == Reader(SInt64Type, c, p)
readUInt64(c, p) == Reader(UInt64Type, c, p)
readSingle(c, p) == Reader(SingleType, c, p)
readDouble(c, p) == Reader(DoubleType, c, p)

\* BinaryString._next(nbytes): the position moves before the length test
Next_(nbytes, c, p) ==
    IF p + nbytes > Len(c)
    THEN [exc |-> "EOFError", value |-> NoValue, pos |-> p + nbytes]
    ELSE [exc |-> "none",
          value |-> (IF nbytes = 1 THEN c[p + 1] ELSE Slice(c, p, nbytes)),
          pos |-> p + nbytes]

\* the loop with "shift += 8"
RECURSIVE Packed7LoopShift8(_, _, _, _, _)
Packed7LoopShift8(byte, value, shift, c, p) ==
    IF BitAnd(byte, 128) # 0
    THEN LET Again(r) ==
                 IF r.exc # "none" THEN r
                 ELSE Packed7LoopShift8(r.value,
                                        BitOr(value, ShiftLeft(BitAnd(r.value, 127), shift)),
                                        shift + 8, c, r.pos)
         IN  Again(Reader(UInt8Type, c, p))
    ELSE [exc |-> "none", value |-> value, pos |-> p]

\* the while loop of readPacked7Int, entered with the byte just read
RECURSIVE Packed7Loop(_, _, _, _, _)
Packed7Loop(byte, value, shift, c, p) ==
    IF BitAnd(byte, 128) # 0
    THEN LET Again(r) ==
                 IF r.exc # "none" THEN r
                 ELSE Packed7Loop(r.value,
                                  BitOr(value, ShiftLeft(BitAnd(r.value, 127), shift)),
                                  shift + 7, c, r.pos)
         IN  Again(readUInt8(c, p))
    ELSE [exc |-> "none", value |-> value, pos |-> p]

readPacked7Int(c, p) ==
    LET First(r) ==
            IF r.exc # "none" THEN r
            ELSE Packed7Loop(r.value, BitAnd(r.value, 127), 7, c, r.pos)
    IN  First(readUInt8(c, p))

\* readString(length=None)
readString(c, p) ==
    LET Chars(l) ==
            IF l.exc # "none" THEN l
            ELSE IF l.value > 0 THEN Next_(l.value, c, l.pos)
            ELSE [exc |-> "none", value |-> <<>>, pos |-> l.pos]
    IN  Chars(readPacked7Int(c, p))

\* the loop with "mask < 64": the high bit of each byte never used
RECURSIVE BitArrayLoopSevenBits(_, _, _, _, _, _, _)
BitArrayLoopSevenBits(i, nbits, mask, byte, bits, c, p) ==
    IF i >= nbits THEN [exc |-> "none", value |-> bits, pos |-> p]
    ELSE IF mask < 64
         THEN LET m == ShiftLeft(mask, 1)
              IN  BitArrayLoopSevenBits(i + 1, nbits, m, byte,
                                        Append(bits, BitAnd(byte, m) = m), c, p)
         ELSE LET Again(r) ==
                      IF r.exc # "none" THEN r
                      ELSE BitArrayLoopSevenBits(i + 1, nbits, 1, r.value,
                                                 Append(bits, BitAnd(r.value, 1) = 1),
                                                 c, r.pos)
              IN  Again(Reader(ByteType, c, p))

\* the for loop of readBitArray from index i with the loop state (mask, byte)
RECURSIVE BitArrayLoop(_, _, _, _, _, _, _)
BitArrayLoop(i, nbits, mask, byte, bits, c, p) ==
    IF i >= nbits THEN [exc |-> "none", value |-> bits, pos |-> p]
    ELSE IF mask < 128
         THEN LET m == ShiftLeft(mask, 1)
              IN  BitArrayLoop(i + 1, nbits, m, byte,
                               Append(bits, BitAnd(byte, m) = m), c, p)
         ELSE LET Again(r) ==
                      IF r.exc # "none" THEN r
                      ELSE BitArrayLoop(i + 1, nbits, 1, r.value,
                                        Append(bits, BitAnd(r.value, 1) = 1), c, r.pos)
              IN  Again(readByte(c, p))

\* readBitArray(nbits); nbits = -1 stands for the omitted argument (None)
readBitArray(nbits, c, p) ==
    IF nbits = -1
    THEN LET Bits(r) ==
                 IF r.exc # "none" THEN r
                 ELSE BitArrayLoop(0, r.value, 128, 0, <<>>, c, r.pos)
         IN  Bits(readInt16(c, p))
    ELSE BitArrayLoop(0, nbits, 128, 0, <<>>, c, p)

\* BinaryString._clamp_pos
ClampPos(p, c) ==
    IF p < 0 THEN 0 ELSE IF p > Len(c) THEN Len(c) ELSE p

\* BinaryString.seek(nbytes, whence)
Seek(nbytes, whence, c, p) ==
    ClampPos(CASE whence = "SEEK_CUR" -> p + nbytes
               [] whence = "SEEK_SET" -> nbytes
               [] whence = "SEEK_END" -> Len(c) + nbytes, c)

(***************************************************************************)
(* Tile.py                                                                 *)
(***************************************************************************)
BIT_MOREHDR == 1
BIT_ACTIVE == 2
BIT_HASWALL == 4
MASK_LIQUID == 24
SHFT_LIQUID == 3
BIT_TYPE16B == 32
BIT_TCOLOR == 8
BIT_WCOLOR == 16
BIT_REDWI == 2
BIT_GREENWI == 4
BIT_BLUEWI == 8
MASK_BSTYLE == 112
SHFT_BSTYLE == 4
BIT_ACTUATE == 2
BIT_INACTIV == 4
MASK_HASRLE == 192
SHFT_RLE == 6

\* IDs.Tile.Timers
Timers == 144

\* BrickStyle.From and LiquidType.From: the identity on the values in range
BrickStyleFrom(value) ==
    IF 0 <= value /\ value <= 7 THEN value ELSE PyNone

LiquidTypeFrom(value) ==
    IF 0 <= value /\ value <= 3 THEN value ELSE PyNone

\* Tile with every attribute at 0 or False: defaults forgotten for U and V
TileZeroDefaults ==
    [IsActive |-> FALSE, WireRed |-> FALSE, WireGreen |-> FALSE,
     WireBlue |-> FALSE, TileColor |-> 0, Type |-> 0, Wall |-> 0,
     WallColor |-> 0, LiquidType |-> 0, LiquidAmount |-> 0, BrickStyle |-> 0,
     Actuator |-> FALSE, InActive |-> FALSE, U |-> 0, V |-> 0]

\* Tile(lazy=True): an attribute that was never assigned reads as its
\* SerializedAttributes default (Tile.__getattr__)
NewTile ==
    [IsActive |-> FALSE, WireRed |-> FALSE, WireGreen |-> FALSE,
     WireBlue |-> FALSE, TileColor |-> 0, Type |-> 0, Wall |-> 0,
     WallColor |-> 0, LiquidType |-> 0, LiquidAmount |-> 0, BrickStyle |-> 0,
     Actuator |-> FALSE, InActive |-> FALSE, U |-> -1, V |-> -1]

\* test = lambda val, mask: (val & mask) == mask
test(val, mask) ==
    BitAnd(val, mask) = mask

\* the gate without the important-tiles test: frame coordinates always read
IsImportantAlways(ty, importantTiles) ==
    TRUE

\* t.Type < len(importantTiles) and importantTiles[t.Type]
IsImportant(ty, importantTiles) ==
    ty < Len(importantTiles) /\ importantTiles[ty + 1]

\* FromStream's state between two statements: the stream (pos, exc), the
\* value of the last read, the fields read so far in order (log), the header
\* bytes, the tile under construction and the run length.  A read after a
\* raised exception does not happen.
FromStreamEntry(p) ==
    [pos |-> p, exc |-> "none", value |-> 0, log |-> <<>>,
     header1 |-> 0, header2 |-> 0, header3 |-> 0, tile |-> NewTile, rle |-> 0]

StreamRead(label, t, c, a) ==
    IF a.exc # "none" THEN [a EXCEPT !.value = 0]
    ELSE LET Got(r) ==
                 IF r.exc # "none"
                 THEN [a EXCEPT !.exc = r.exc, !.value = 0]
                 ELSE [a EXCEPT !.pos = r.pos, !.value = r.value,
                                !.log = Append(a.log, <<label, t.n>>)]
         IN  Got(Reader(t, c, a.pos))

\* header1 = stream.readUInt8()
ReadHeader1(c, a) ==
    LET Set(s) == [s EXCEPT !.header1 = s.value]
    IN  Set(StreamRead("header1", UInt8Type, c, a))

\* header2 = stream.readUInt8() if test(header1, BIT_MOREHDR) else 0
ReadHeader2(c, a) ==
    IF test(a.header1, BIT_MOREHDR)
    THEN LET Set(s) == [s EXCEPT !.header2 = s.value]
         IN  Set(StreamRead("header2", UInt8Type, c, a))
    ELSE a

\* header3 read on bit 0 of header1
ReadHeader3OnHeader1(c, a) ==
    IF test(a.header1, BIT_MOREHDR)
    THEN LET Set(s) == [s EXCEPT !.header3 = s.value]
         IN  Set(StreamRead("header3", UInt8Type, c, a))
    ELSE a

\* header3 = stream.readUInt8() if test(header2, BIT_MOREHDR) else 0
ReadHeader3(c, a) ==
    IF test(a.header2, BIT_MOREHDR)
    THEN LET Set(s) == [s EXCEPT !.header3 = s.value]
         IN  Set(StreamRead("header3", UInt8Type, c, a))
    ELSE a

\* t.IsActive = True; t.Type = stream.readUInt16() or stream.readUInt8()
ReadType(c, a) ==
    LET Set(s) == [s EXCEPT !.tile.IsActive = TRUE, !.tile.Type = s.value]
    IN  Set(IF test(a.header1, BIT_TYPE16B)
            THEN StreamRead("Type", UInt16Type, c, a)
            ELSE StreamRead("Type", UInt8Type, c, a))

\* t.U = stream.readInt16(); t.V = stream.readInt16(); Timers: t.V = 0
ReadFrames(c, importantTiles, a) ==
    IF IsImportant(a.tile.Type, importantTiles)
    THEN LET SetV(u, v) ==
                 [v EXCEPT !.tile.U = u.value,
                           !.tile.V = IF a.tile.Type = Timers THEN 0 ELSE v.value]
             SetU(u) == SetV(u, StreamRead("V", SInt16Type, c, u))
         IN  SetU(StreamRead("U", SInt16Type, c, a))
    ELSE a

\* if test(header3, BIT_TCOLOR): t.TileColor = stream.readUInt8()
ReadTileColor(c, a) ==
    IF test(a.header3, BIT_TCOLOR)
    THEN LET Set(s) == [s EXCEPT !.tile.TileColor = s.value]
         IN  Set(StreamRead("TileColor", UInt8Type, c, a))
    ELSE a

\* if test(header1, BIT_ACTIVE): ...
ReadActive(c, importantTiles, a) ==
    IF test(a.header1, BIT_ACTIVE)
    THEN ReadTileColor(c, ReadFrames(c, importantTiles, ReadType(c, a)))
    ELSE a

\* if test(header1, BIT_HASWALL): ...
ReadWall(c, a) ==
    IF test(a.header1, BIT_HASWALL)
    THEN LET SetColor(k) == [k EXCEPT !.tile.WallColor = k.value]
             Color(w) ==
                 IF test(a.header3, BIT_WCOLOR)
                 THEN SetColor(StreamRead("WallColor", UInt8Type, c, w))
                 ELSE w
             Set(s) == Color([s EXCEPT !.tile.Wall = s.value])
         IN  Set(StreamRead("Wall", UInt8Type, c, a))
    ELSE a

\* t.LiquidType = LiquidType.From(...); if t.LiquidType != 0: ...
ReadLiquid(c, a) ==
    LET Set(s) == [s EXCEPT !.tile.LiquidAmount = s.value]
        Amount(l) ==
            IF l.tile.LiquidType # 0
            THEN Set(StreamRead("LiquidAmount", UInt8Type, c, l))
            ELSE l
    IN  Amount([a EXCEPT !.tile.LiquidType = LiquidTypeFrom(
                   ShiftRight(BitAnd(a.header1, MASK_LIQUID), SHFT_LIQUID))])

\* if header2 != 0: wires and brick style
SetWires(a) ==
    IF a.header2 # 0
    THEN [a EXCEPT !.tile.WireRed = test(a.header2, BIT_REDWI),
                   !.tile.WireGreen = test(a.header2, BIT_GREENWI),
                   !.tile.WireBlue = test(a.header2, BIT_BLUEWI),
                   !.tile.BrickStyle = BrickStyleFrom(
                       ShiftRight(BitAnd(a.header2, MASK_BSTYLE), SHFT_BSTYLE))]
    ELSE a

\* if header3 != 0: actuator bits
SetActuator(a) ==
    IF a.header3 # 0
    THEN [a EXCEPT !.tile.Actuator = test(a.header3, BIT_ACTUATE),
                   !.tile.InActive = test(a.header3, BIT_INACTIV)]
    ELSE a

\* rleType = ((header1 & MASK_HASRLE) >> SHFT_RLE); rle by its width
ReadRLE(c, a) ==
    LET Set(s) == [s EXCEPT !.rle = s.value]
        Run(rleType) ==
            IF rleType = 1 THEN Set(StreamRead("rle", UInt8Type, c, a))
            ELSE IF rleType # 0 THEN Set(StreamRead("rle", SInt16Type, c, a))
            ELSE a
    IN  Run(ShiftRight(BitAnd(a.header1, MASK_HASRLE), SHFT_RLE))

\* FromStream(stream, importantTiles): [exc, tile, rle, pos, log]
FromStream(c, p, importantTiles) ==
    LET Headers(entry) == ReadHeader3(c, ReadHeader2(c, ReadHeader1(c, entry)))
        Body(headers) == ReadLiquid(c, ReadWall(c, ReadActive(c, importantTiles, headers)))
        Return(a) ==
            [exc |-> a.exc,
             tile |-> IF a.exc = "none" THEN a.tile ELSE NoValue,
             rle |-> a.rle, pos |-> a.pos, log |-> a.log]
    IN  Return(ReadRLE(c, SetActuator(SetWires(Body(Headers(FromStreamEntry(p)))))))

(***************************************************************************)
(* Header.py                                                               *)
(***************************************************************************)
CompatibleVersion == 102
Version147 == 147
Version140 == 140
Version104 == 104
Version101 == 101
Version99 == 99
Version95 == 95
INVALID_POINTER == -1
SECTION_FLAGS == 0
SECTION_TILES == 1
SECTION_CHESTS == 2
SECTION_SIGNS == 3
SECTION_NPCS == 4
SECTION_TENTS == 5
SECTION_FOOTER_OLD == 5
SECTION_FOOTER_140 == 6
SectionCount == 10
FILETYPE_WORLD == 1

\* RELOGIC_MAGIC = 27981915666277746: its seven bytes, low byte first
RELOGIC_MAGIC == <<114, 101, 108, 111, 103, 105, 99>>

\* RELOGIC_MAGIC | (FILETYPE_WORLD << 56), as readUInt64 returns it
ExpectedMetaMagic == <<"Q">> \o RELOGIC_MAGIC \o <<FILETYPE_WORLD>>

\* WorldFileHeader.AssertValid
AssertValid(header) == header.MetaMagic = ExpectedMetaMagic

\* WorldFileHeader.__init__
WorldFileHeader ==
    [Version |-> 0, MetaMagic |-> <<"Q", 0, 0, 0, 0, 0, 0, 0, 0>>, MetaRevision |-> 0,
     WorldBits |-> <<"Q", 0, 0, 0, 0, 0, 0, 0, 0>>,
     SectionPointers |-> [i \in 1..SectionCount |-> -1],
     FileSize |-> 0, ImportantTiles |-> <<>>]

\* SectionPointers[i] of the Python list (0-based)
SectionPointer(header, i) == header.SectionPointers[i + 1]

GetFlagsPointer(header) == SectionPointer(header, SECTION_FLAGS)
GetTilesPointer(header) == SectionPointer(header, SECTION_TILES)
GetChestsPointer(header) == SectionPointer(header, SECTION_CHESTS)
GetSignsPointer(header) == SectionPointer(header, SECTION_SIGNS)
GetNPCsPointer(header) == SectionPointer(header, SECTION_NPCS)

GetTileEntitiesPointer(header) ==
    IF header.Version >= Version140
    THEN SectionPointer(header, SECTION_TENTS)
    ELSE INVALID_POINTER

GetFooterPointer(header) ==
    IF header.Version >= Version140
    THEN SectionPointer(header, SECTION_FOOTER_140)
    ELSE SectionPointer(header, SECTION_FOOTER_OLD)

(***************************************************************************)
(* World.LoadHeader                                                        *)
(***************************************************************************)
\* A loader threads a record a = [exc, pos, value, ...] through its reads;
\* a read after a raised exception does not happen.
Returned(a, r) ==
    IF r.exc # "none"
    THEN [a EXCEPT !.exc = r.exc, !.pos = r.pos]
    ELSE [a EXCEPT !.pos = r.pos, !.value = r.value]

\* <name> = stream.read...(): the value a loader keeps in a local variable
Local(name, s) ==
    IF s.exc # "none" THEN s ELSE [s EXCEPT !.locals = (name :> s.value) @@ @]

\* stream.read<Type>() in a loader
SectionRead(t, c, a) ==
    IF a.exc # "none" THEN a ELSE Returned(a, Reader(t, c, a.pos))

\* stream.readString() in a loader
SectionReadString(c, a) ==
    IF a.exc # "none" THEN a ELSE Returned(a, readString(c, a.pos))

\* stream.readBoolean() in a loader
SectionReadBoolean(c, a) ==
    IF a.exc # "none" THEN a ELSE Returned(a, readBoolean(c, a.pos))

\* header.<field> = stream.read<t>()
HeaderField(field, t, c, a) ==
    LET Set(s) == IF s.exc # "none" THEN s ELSE [s EXCEPT !.header[field] = s.value]
    IN  Set(SectionRead(t, c, a))

\* for i in range(numSectionPointers): header.SectionPointers[i] = readUInt32()
RECURSIVE HeaderPointers(_, _, _, _)
HeaderPointers(i, numSectionPointers, c, a) ==
    IF i >= numSectionPointers \/ a.exc # "none" THEN a
    ELSE LET Set(s) ==
                 IF s.exc # "none" THEN s
                 ELSE IF i >= SectionCount THEN [s EXCEPT !.exc = "IndexError"]
                 ELSE HeaderPointers(i + 1, numSectionPointers, c,
                          [s EXCEPT !.header.SectionPointers[i + 1] = s.value])
         IN  Set(SectionRead(UInt32Type, c, a))

\* header.FileSize between seek_end() and seek_set(pos)
HeaderFileSize(c, a) ==
    IF a.exc # "none" THEN a
    ELSE [a EXCEPT !.header.FileSize = Seek(0, "SEEK_END", c, a.pos),
                   !.pos = Seek(a.pos, "SEEK_SET", c, Seek(0, "SEEK_END", c, a.pos))]

\* header.ImportantTiles = stream.readBitArray()
HeaderImportantTiles(c, a) ==
    IF a.exc # "none" THEN a
    ELSE LET Set(r) ==
                 IF r.exc # "none"
                 THEN [a EXCEPT !.exc = r.exc, !.pos = r.pos]
                 ELSE [a EXCEPT !.pos = r.pos, !.header.ImportantTiles = r.value]
         IN  Set(readBitArray(-1, c, a.pos))

\* LoadHeader(): [exc, pos, header]
LoadHeader(c, p) ==
    LET Fixed(entry) ==
            HeaderField("WorldBits", UInt64Type, c,
            HeaderField("MetaRevision", UInt32Type, c,
            HeaderField("MetaMagic", UInt64Type, c,
            HeaderField("Version", UInt32Type, c, entry))))
        Pointers(count) ==
            HeaderImportantTiles(c, HeaderPointers(0, count.value, c, count))
    IN  Pointers(HeaderFileSize(c, SectionRead(UInt16Type, c,
            Fixed([exc |-> "none", pos |-> p, value |-> 0,
                   header |-> WorldFileHeader]))))

(***************************************************************************)
(* WorldFlags.py and World.LoadFlags                                       *)
(***************************************************************************)
\* the type slot of a manually parsed flag (None)
NoneType == [c |-> "None", n |-> 0]

\* WorldFlags.Flags: (name, type, min_version) in declared order
Flags == <<
    [name |-> "WorldId", type |-> UInt32Type, ver |-> CompatibleVersion],
    [name |-> "LeftWorld", type |-> UInt32Type, ver |-> CompatibleVersion],
    [name |-> "RightWorld", type |-> UInt32Type, ver |-> CompatibleVersion],
    [name |-> "TopWorld", type |-> UInt32Type, ver |-> CompatibleVersion],
    [name |-> "BottomWorld", type |-> UInt32Type, ver |-> CompatibleVersion],
    [name |-> "TilesHigh", type |-> UInt32Type, ver |-> CompatibleVersion],
    [name |-> "TilesWide", type |-> UInt32Type, ver |-> CompatibleVersion],
    [name |-> "ExpertMode", type |-> BooleanType, ver |-> Version147],
    [name |-> "CreationTime", type |-> UInt64Type, ver |-> Version147],
    [name |-> "MoonType", type |-> SInt8Type, ver |-> CompatibleVersion],
    [name |-> "TreeX0", type |-> UInt32Type, ver |-> CompatibleVersion],
    [name |-> "TreeX1", type |-> UInt32Type, ver |-> CompatibleVersion],
    [name |-> "TreeX2", type |-> UInt32Type, ver |-> CompatibleVersion],
    [name |-> "TreeStyle0", type |-> UInt32Type, ver |-> CompatibleVersion],
    [name |-> "TreeStyle1", type |-> UInt32Type, ver |-> CompatibleVersion],
    [name |-> "TreeStyle2", type |-> UInt32Type, ver |-> CompatibleVersion],
    [name |-> "TreeStyle3", type |-> UInt32Type, ver |-> CompatibleVersion],
    [name |-> "CaveBackX0", type |-> UInt32Type, ver |-> CompatibleVersion],
    [name |-> "CaveBackX1", type |-> UInt32Type, ver |-> CompatibleVersion],
    [name |-> "CaveBackX2", type |-> UInt32Type, ver |-> CompatibleVersion],
    [name |-> "CaveBackStyle0", type |-> UInt32Type, ver |-> CompatibleVersion],
    [name |-> "CaveBackStyle1", type |-> UInt32Type, ver |-> CompatibleVersion],
    [name |-> "CaveBackStyle2", type |-> UInt32Type, ver |-> CompatibleVersion],
    [name |-> "CaveBackStyle3", type |-> UInt32Type, ver |-> CompatibleVersion],
    [name |-> "IceBackStyle", type |-> UInt32Type, ver |-> CompatibleVersion],
    [name |-> "JungleBackStyle", type |-> UInt32Type, ver |-> CompatibleVersion],
    [name |-> "HellBackStyle", type |-> UInt32Type, ver |-> CompatibleVersion],
    [name |-> "SpawnX", type |-> UInt32Type, ver |-> CompatibleVersion],
    [name |-> "SpawnY", type |-> UInt32Type, ver |-> CompatibleVersion],
    [name |-> "GroundLevel", type |-> DoubleType, ver |-> CompatibleVersion],
    [name |-> "RockLevel", type |-> DoubleType, ver |-> CompatibleVersion],
    [name |-> "Time", type |-> DoubleType, ver |-> CompatibleVersion],
    [name |-> "DayTime", type |-> BooleanType, ver |-> CompatibleVersion],
    [name |-> "MoonPhase", type |-> UInt32Type, ver |-> CompatibleVersion],
    [name |-> "BloodMoon", type |-> BooleanType, ver |-> CompatibleVersion],
    [name |-> "IsEclipse", type |-> BooleanType, ver |-> CompatibleVersion],
    [name |-> "DungeonX", type |-> UInt32Type, ver |-> CompatibleVersion],
    [name |-> "DungeonY", type |-> UInt32Type, ver |-> CompatibleVersion],
    [name |-> "IsCrimson", type |-> BooleanType, ver |-> CompatibleVersion],
    [name |-> "DownedBoss1", type |-> BooleanType, ver |-> CompatibleVersion],
    [name |-> "DownedBoss2", type |-> BooleanType, ver |-> CompatibleVersion],
    [name |-> "DownedBoss3", type |-> BooleanType, ver |-> CompatibleVersion],
    [name |-> "DownedQueenBee", type |-> BooleanType, ver |-> CompatibleVersion],
    [name |-> "DownedMechBoss1", type |-> BooleanType, ver |-> CompatibleVersion],
    [name |-> "DownedMechBoss2", type |-> BooleanType, ver |-> CompatibleVersion],
    [name |-> "DownedMechBoss3", type |-> BooleanType, ver |-> CompatibleVersion],
    [name |-> "DownedMechBossAny", type |-> BooleanType, ver |-> CompatibleVersion],
    [name |-> "DownedPlantBoss", type |-> BooleanType, ver |-> CompatibleVersion],
    [name |-> "DownedGolemBoss", type |-> BooleanType, ver |-> CompatibleVersion],
    [name |-> "DownedSlimeKingBoss", type |-> BooleanType, ver |-> Version147],
    [name |-> "SavedGoblin", type |-> BooleanType, ver |-> CompatibleVersion],
    [name |-> "SavedWizard", type |-> BooleanType, ver |-> CompatibleVersion],
    [name |-> "SavedMech", type |-> BooleanType, ver |-> CompatibleVersion],
    [name |-> "DownedGoblins", type |-> BooleanType, ver |-> CompatibleVersion],
    [name |-> "DownedClown", type |-> BooleanType, ver |-> CompatibleVersion],
    [name |-> "DownedFrost", type |-> BooleanType, ver |-> CompatibleVersion],
    [name |-> "DownedPirates", type |-> BooleanType, ver |-> CompatibleVersion],
    [name |-> "ShadowOrbSmashed", type |-> BooleanType, ver |-> CompatibleVersion],
    [name |-> "SpawnMeteor", type |-> BooleanType, ver |-> CompatibleVersion],
    [name |-> "ShadowOrbCount", type |-> SInt8Type, ver |-> CompatibleVersion],
    [name |-> "AltarCount", type |-> UInt32Type, ver |-> CompatibleVersion],
    [name |-> "HardMode", type |-> BooleanType, ver |-> CompatibleVersion],
    [name |-> "InvasionDelay", type |-> UInt32Type, ver |-> CompatibleVersion],
    [name |-> "InvasionSize", type |-> UInt32Type, ver |-> CompatibleVersion],
    [name |-> "InvasionType", type |-> UInt32Type, ver |-> CompatibleVersion],
    [name |-> "InvasionX", type |-> DoubleType, ver |-> CompatibleVersion],
    [name |-> "SlimeRainTime", type |-> DoubleType, ver |-> Version147],
    [name |-> "SundialCooldown", type |-> SInt8Type, ver |-> Version147],
    [name |-> "TempRaining", type |-> BooleanType, ver |-> CompatibleVersion],
    [name |-> "TempRainTime", type |-> UInt32Type, ver |-> CompatibleVersion],
    [name |-> "TempMaxRain", type |-> SingleType, ver |-> CompatibleVersion],
    [name |-> "OreTier1", type |-> UInt32Type, ver |-> CompatibleVersion],
    [name |-> "OreTier2", type |-> UInt32Type, ver |-> CompatibleVersion],
    [name |-> "OreTier3", type |-> UInt32Type, ver |-> CompatibleVersion],
    [name |-> "BGTree", type |-> SInt8Type, ver |-> CompatibleVersion],
    [name |-> "BGCorruption", type |-> SInt8Type, ver |-> CompatibleVersion],
    [name |-> "BGJungle", type |-> SInt8Type, ver |-> CompatibleVersion],
    [name |-> "BGSnow", type |-> SInt8Type, ver |-> CompatibleVersion],
    [name |-> "BGHallow", type |-> SInt8Type, ver |-> CompatibleVersion],
    [name |-> "BGCrimson", type |-> SInt8Type, ver |-> CompatibleVersion],
    [name |-> "BGDesert", type |-> SInt8Type, ver |-> CompatibleVersion],
    [name |-> "BGOcean", type |-> SInt8Type, ver |-> CompatibleVersion],
    [name |-> "CloudBGActive", type |-> UInt32Type, ver |-> CompatibleVersion],
    [name |-> "NumClouds", type |-> UInt16Type, ver |-> CompatibleVersion],
    [name |-> "WindSpeedSet", type |-> SingleType, ver |-> CompatibleVersion],
    [name |-> "NumAnglers", type |-> UInt32Type, ver |-> Version95],
    [name |-> "Anglers", type |-> NoneType, ver |-> Version95],
    [name |-> "SavedAngler", type |-> BooleanType, ver |-> Version99],
    [name |-> "AnglerQuest", type |-> UInt32Type, ver |-> Version101],
    [name |-> "SavedStylist", type |-> BooleanType, ver |-> Version104],
    [name |-> "SavedTaxCollector", type |-> BooleanType, ver |-> Version140],
    [name |-> "InvasionSizeStart", type |-> UInt32Type, ver |-> Version140],
    [name |-> "CultistDelay", type |-> UInt32Type, ver |-> Version140],
    [name |-> "KilledMobCount", type |-> UInt16Type, ver |-> Version140],
    [name |-> "KilledMobs", type |-> NoneType, ver |-> Version140],
    [name |-> "FastForwardTime", type |-> BooleanType, ver |-> Version140],
    [name |-> "DownedFishron", type |-> BooleanType, ver |-> Version140],
    [name |-> "DownedMartians", type |-> BooleanType, ver |-> Version140],
    [name |-> "DownedLunaticCultist", type |-> BooleanType, ver |-> Version140],
    [name |-> "DownedMoonlord", type |-> BooleanType, ver |-> Version140],
    [name |-> "DownedHalloweenKing", type |-> BooleanType, ver |-> Version140],
    [name |-> "DownedHalloweenTree", type |-> BooleanType, ver |-> Version140],
    [name |-> "DownedChristmasQueen", type |-> BooleanType, ver |-> Version140],
    [name |-> "DownedSanta", type |-> BooleanType, ver |-> Version140],
    [name |-> "DownedChristmasTree", type |-> BooleanType, ver |-> Version140],
    [name |-> "DownedCelestialColar", type |-> BooleanType, ver |-> Version140],
    [name |-> "DownedCelestialVortex", type |-> BooleanType, ver |-> Version140],
    [name |-> "DownedCelestialNebula", type |-> BooleanType, ver |-> Version140],
    [name |-> "DownedCelestialStardust", type |-> BooleanType, ver |-> Version140],
    [name |-> "CelestialSolarActive", type |-> BooleanType, ver |-> Version140],
    [name |-> "CelestialVortexActive", type |-> BooleanType, ver |-> Version140],
    [name |-> "CelestialNebulaActive", type |-> BooleanType, ver |-> Version140],
    [name |-> "CelestialStardustActive", type |-> BooleanType, ver |-> Version140],
    [name |-> "Apocalypse", type |-> BooleanType, ver |-> Version140],
    [name |-> "UnknownFlags", type |-> NoneType, ver |-> CompatibleVersion]
>>

FlagNames == {Flags[i].name : i \in DOMAIN Flags}

FlagNamed(name) == Flags[CHOOSE i \in DOMAIN Flags : Flags[i].name = name]

\* WorldFlags.__init__: Title is '', a scalar flag 0, a manual flag []
WorldFlags(version) ==
    [name \in {"_version", "Title"} \cup FlagNames |->
        CASE name = "_version" -> version
          [] name = "Title" -> <<>>
          [] OTHER -> IF FlagNamed(name).type = NoneType THEN <<>> ELSE 0]

\* BinaryString.ScalarReaderLookup = dict(zip(Types, ScalarReaders)): the
\* type whose reader the lookup yields
ScalarReaderLookup(t) ==
    IF t = BooleanType THEN SInt8Type ELSE t

\* "0x%x (%d)" % (value, value): a float that is NaN or infinite has no
\* integer value and the format raises TypeError
Formats(t, value) ==
    CASE t.c = "d" -> ~(BitAnd(value[9], 127) = 127 /\ BitAnd(value[8], 240) = 240)
      [] t.c = "f" -> ~(BitAnd(value[5], 127) = 127 /\ BitAnd(value[4], 128) = 128)
      [] OTHER -> TRUE

\* if ver > self._header.Version: continue
FlagSkipped(ver, version) ==
    ver > version

\* _LoadAnglers: for i in range(num_anglers): anglers.append(readString())
RECURSIVE LoadAnglers(_, _, _)
LoadAnglers(num_anglers, c, a) ==
    IF num_anglers <= 0 \/ a.exc # "none" THEN a
    ELSE LET Add(s) ==
                 IF s.exc # "none" THEN s
                 ELSE LoadAnglers(num_anglers - 1, c,
                                  [s EXCEPT !.list = Append(s.list, s.value)])
         IN  Add(SectionReadString(c, a))

\* _LoadKilledMobs: for i in range(num_mobs): mobs.append(readUInt32())
RECURSIVE LoadKilledMobs(_, _, _)
LoadKilledMobs(num_mobs, c, a) ==
    IF num_mobs <= 0 \/ a.exc # "none" THEN a
    ELSE LET Add(s) ==
                 IF s.exc # "none" THEN s
                 ELSE LoadKilledMobs(num_mobs - 1, c,
                                     [s EXCEPT !.list = Append(s.list, s.value)])
         IN  Add(SectionRead(UInt32Type, c, a))

\* the loop of _LoadUnknownHeaders: flags.append(readUInt8())
RECURSIVE UnknownHeadersLoop(_, _, _)
UnknownHeadersLoop(nflags, c, a) ==
    IF nflags <= 0 \/ a.exc # "none" THEN a
    ELSE LET Add(s) ==
                 IF s.exc # "none" THEN s
                 ELSE UnknownHeadersLoop(nflags - 1, c,
                                         [s EXCEPT !.list = Append(s.list, s.value)])
         IN  Add(SectionRead(UInt8Type, c, a))

\* _LoadUnknownHeaders: nflags = SectionPointers[1] - pos
LoadUnknownHeaders(header, c, a) ==
    UnknownHeadersLoop(SectionPointer(header, 1) - a.pos, c, a)

\* the "typename is None" branch of the loop body
LoadManualFlag(flag, header, c, a) ==
    LET Set(s) == IF s.exc # "none" THEN s ELSE [s EXCEPT !.flags[flag.name] = s.list]
        Manual(entry) ==
            CASE flag.name = "Anglers" ->
                     LoadAnglers(a.flags["NumAnglers"], c, entry)
              [] flag.name = "KilledMobs" ->
                     LoadKilledMobs(a.flags["KilledMobCount"], c, entry)
              [] flag.name = "UnknownFlags" ->
                     LoadUnknownHeaders(header, c, entry)
              [] OTHER -> [entry EXCEPT !.exc = "AssertionError"]
    IN  Set(Manual([a EXCEPT !.list = <<>>]))

\* the "else" branch: the reader of the lookup, the verbose line, flags.set;
\* the OreTier lines between them call IDs.valid_tile (IDs is not among the
\* sources) and only write messages
LoadScalarFlag(flag, c, a) ==
    LET Set(s) ==
            IF s.exc # "none" THEN s
            ELSE IF ~Formats(flag.type, s.value) THEN [s EXCEPT !.exc = "TypeError"]
            ELSE [s EXCEPT !.flags[flag.name] = s.value]
    IN  Set(SectionRead(ScalarReaderLookup(flag.type), c, a))

\* one iteration of "for i, flag in enumerate(WorldFlags.Flags)"; log keeps
\* the stream position before and after each entry
LoadFlag(flag, header, c, a) ==
    LET Logged(s) ==
            [s EXCEPT !.log = Append(a.log, [name |-> flag.name, pos0 |-> a.pos,
                                             pos1 |-> s.pos, exc |-> s.exc])]
    IN  Logged(IF FlagSkipped(flag.ver, header.Version) THEN a
               ELSE IF flag.type = NoneType THEN LoadManualFlag(flag, header, c, a)
               ELSE LoadScalarFlag(flag, c, a))

\* "for i, flag in enumerate(WorldFlags.Flags)" over entries lo..hi in order,
\* second half after first half so that the evaluation nests to a depth
\* logarithmic in the number of entries
RECURSIVE FlagsLoop(_, _, _, _, _)
FlagsLoop(lo, hi, header, c, a) ==
    IF lo > hi \/ a.exc # "none" THEN a
    ELSE IF lo = hi THEN LoadFlag(Flags[lo], header, c, a)
    ELSE FlagsLoop((lo + hi) \div 2 + 1, hi, header, c,
                   FlagsLoop(lo, (lo + hi) \div 2, header, c, a))

\* LoadFlags() on a loaded header: [exc, pos, flags, log]
LoadFlags(header, c, p) ==
    IF header.Version = 0
    THEN [exc |-> "RuntimeError", pos |-> p, value |-> 0, list |-> <<>>,
          flags |-> WorldFlags(0), log |-> <<>>]
    ELSE LET Titled(title) ==
                 FlagsLoop(1, Len(Flags), header, c,
                           IF title.exc # "none" THEN title
                           ELSE [title EXCEPT !.flags["Title"] = title.value])
         IN  Titled(SectionReadString(c,
                 [exc |-> "none",
                  pos |-> Seek(GetFlagsPointer(header), "SEEK_SET", c, p),
                  value |-> 0, list |-> <<>>,
                  flags |-> WorldFlags(header.Version), log |-> <<>>]))

(***************************************************************************)
(* World.LoadTiles                                                         *)
(***************************************************************************)
\* self._PosToIdx(x, y)
PosToIdx(width, x, y) == y * width + x

Max(a, b) == IF a >= b THEN a ELSE b

\* counts[key] += n on a collections.defaultdict(int)
Tally(counts, key, n) ==
    IF key \in DOMAIN counts
    THEN [counts EXCEPT ![key] = @ + n]
    ELSE counts @@ (key :> n)

\* GetTileCount(tile), GetWallCount(wall): self._tile_counts[tile] on a
\* collections.defaultdict(int)
GetTileCount(counts, tile) ==
    IF tile \in DOMAIN counts THEN counts[tile] ELSE 0

\* "tiles[i] = tile" with i += w per copy, the column step taken as one cell
\* of the flat list (i += 1)
RECURSIVE RleLoopAlongRow(_, _, _)
RleLoopAlongRow(rle, w, a) ==
    IF rle <= 0 \/ a.exc # "none" THEN a
    ELSE LET i == a.i + 1
         IN  IF i >= Len(a.tiles)
             THEN [a EXCEPT !.exc = "IndexError", !.y = a.y + 1, !.i = i]
             ELSE RleLoopAlongRow(rle - 1, w,
                      [a EXCEPT !.y = a.y + 1, !.i = i,
                                !.tiles[i + 1] = IF a.readonly THEN a.tile
                                                 ELSE Len(a.heap) + 1,
                                !.heap = IF a.readonly THEN a.heap
                                         ELSE Append(a.heap, a.heap[a.tile])])

\* "tiles[i] = tile" in both modes: the copy of read_only=False left out
RECURSIVE RleLoopShared(_, _, _)
RleLoopShared(rle, w, a) ==
    IF rle <= 0 \/ a.exc # "none" THEN a
    ELSE LET i == a.i + w
         IN  IF i >= Len(a.tiles)
             THEN [a EXCEPT !.exc = "IndexError", !.y = a.y + 1, !.i = i]
             ELSE RleLoopShared(rle - 1, w,
                      [a EXCEPT !.y = a.y + 1, !.i = i, !.tiles[i + 1] = a.tile])

\* while rle > 0: y += 1; i += w; tiles[i] = tile or copy.copy(tile); rle -= 1
\* a.tile is the Tile object (its index in heap); a copy is a new object
RECURSIVE RleLoop(_, _, _)
RleLoop(rle, w, a) ==
    IF rle <= 0 \/ a.exc # "none" THEN a
    ELSE LET i == a.i + w
         IN  IF i >= Len(a.tiles)
             THEN [a EXCEPT !.exc = "IndexError", !.y = a.y + 1, !.i = i]
             ELSE RleLoop(rle - 1, w,
                      [a EXCEPT !.y = a.y + 1, !.i = i,
                                !.tiles[i + 1] = IF a.readonly THEN a.tile
                                                 ELSE Len(a.heap) + 1,
                                !.heap = IF a.readonly THEN a.heap
                                         ELSE Append(a.heap, a.heap[a.tile])])

\* the outer loop from its test: the next cell a record is read for, or the
\* end of both loops, with x and y as the code leaves them
RECURSIVE OuterLoop(_, _, _, _, _, _)
OuterLoop(x, y, w, h, p, end) ==
    IF x < w /\ p < end
    THEN IF 0 < h /\ p < end
         THEN [more |-> TRUE, x |-> x, y |-> 0]
         ELSE OuterLoop(x + 1, 0, w, h, p, end)
    ELSE [more |-> FALSE, x |-> x, y |-> y]

\* the inner loop from its test, after "y += 1"
InnerLoop(x, y, w, h, p, end) ==
    IF y < h /\ p < end
    THEN [more |-> TRUE, x |-> x, y |-> y]
    ELSE OuterLoop(x + 1, y, w, h, p, end)

\* the body of the inner loop at (l.x, l.y): l holds the locals of
\* LoadTiles, wd the World object
TileRecord(c, p, wd, l) ==
    LET Placed(r, run, a) ==
            [exc |-> a.exc, pos |-> r.pos, rle |-> r.rle, tile |-> r.tile,
             decoded |-> TRUE,
             l |-> [l EXCEPT !.y = a.y + 1, !.tiles = a.tiles, !.nloaded = @ + 1],
             wd |-> [wd EXCEPT
                !.heap = a.heap,
                !.tile_counts = IF r.tile.IsActive
                                THEN Tally(@, r.tile.Type, run) ELSE @,
                !.wall_counts = IF r.tile.Wall # 0
                                THEN Tally(@, r.tile.Wall, run) ELSE @]]
        Entry(r, id, i) ==
            [exc |-> "none", y |-> l.y, i |-> i, tile |-> id,
             readonly |-> wd.readonly,
             tiles |-> [l.tiles EXCEPT ![i + 1] = id],
             heap |-> Append(wd.heap, r.tile)]
        Read(r) ==
            IF r.exc # "none"
            THEN [exc |-> r.exc, pos |-> r.pos, rle |-> 0, tile |-> NewTile,
                  decoded |-> FALSE, l |-> l, wd |-> wd]
            ELSE Placed(r, Max(r.rle, 1),
                        RleLoop(r.rle, l.w,
                                Entry(r, Len(wd.heap) + 1,
                                      PosToIdx(wd.width, l.x, l.y))))
    IN  IF l.end - l.start = 0
        THEN [exc |-> "ZeroDivisionError", pos |-> p, rle |-> 0, tile |-> NewTile,
              decoded |-> FALSE, l |-> l, wd |-> wd]
        ELSE Read(FromStream(c, p, wd.header[1].ImportantTiles))

\* the warnings after the loops
TileWarnings(p, l) ==
    IF p > l.end THEN <<"Read bytes past the end of the section!">>
    ELSE IF p = l.end /\ (l.x < l.w \/ l.y < l.h)
    THEN <<"Incomplete section!", "Rows left, columns left">>
    ELSE <<>>

(***************************************************************************)
(* World.LoadChests (Chest.py)                                             *)
(***************************************************************************)
MAX_ITEMS == 50

\* Chest.__init__: items maps the slots that were Set to their Item; every
\* other slot of the 50 is None
Chest(name, x, y) ==
    [name |-> name, x |-> x, y |-> y, chest_id |-> 0,
     items |-> <<>>, overflow_items |-> <<>>]

\* stack = readInt16(); if stack > 0: item = readInt32(); prefix = readUInt8()
ReadSlot(c, a) ==
    LET Slot(s) ==
            [s EXCEPT !.slot = IF s.exc # "none" THEN <<>>
                               ELSE <<[item |-> s.locals["item"],
                                       prefix |-> s.locals["prefix"],
                                       stack |-> s.locals["stack"]]>>]
        Stack(s) ==
            IF s.exc # "none" \/ s.value <= 0
            THEN [s EXCEPT !.slot = <<>>]
            ELSE Slot(Local("prefix", SectionRead(UInt8Type, c,
                      Local("item", SectionRead(SInt32Type, c, s)))))
    IN  Stack(Local("stack", SectionRead(SInt16Type, c, a)))

\* the body of "for slot in range(itemsPerChest)": c.Set(slot, ...)
ChestItem(slot, c, a) ==
    LET Set(s) ==
            IF s.exc # "none" THEN s
            ELSE [s EXCEPT !.chest.items = IF s.slot = <<>> THEN @
                                           ELSE @ @@ (slot :> s.slot[1]),
                           !.regular = @ + 1]
    IN  Set(ReadSlot(c, a))

\* for slot in range(lo, hi), second half after first half
RECURSIVE ChestItems(_, _, _, _)
ChestItems(lo, hi, c, a) ==
    IF lo >= hi \/ a.exc # "none" THEN a
    ELSE IF lo + 1 = hi THEN ChestItem(lo, c, a)
    ELSE ChestItems((lo + hi) \div 2, hi, c,
                    ChestItems(lo, (lo + hi) \div 2, c, a))

\* the body of "for slot in range(overflowItems)": overflow_items.append
ChestOverflowItem(c, a) ==
    LET Add(s) ==
            IF s.exc # "none" THEN s
            ELSE [s EXCEPT !.chest.overflow_items = IF s.slot = <<>> THEN @
                                                    ELSE Append(@, s.slot[1]),
                           !.overflow = @ + 1]
    IN  Add(ReadSlot(c, a))

\* for slot in range(lo, hi), second half after first half
RECURSIVE ChestOverflow(_, _, _, _)
ChestOverflow(lo, hi, c, a) ==
    IF lo >= hi \/ a.exc # "none" THEN a
    ELSE IF lo + 1 = hi THEN ChestOverflowItem(c, a)
    ELSE ChestOverflow((lo + hi) \div 2, hi, c,
                       ChestOverflow(lo, (lo + hi) \div 2, c, a))

\* one iteration of "for i in range(totalChests)"; log keeps, per chest, the
\* slots read by each of the two loops
RECURSIVE ChestsLoop(_, _, _, _, _)
ChestsLoop(i, itemsPerChest, overflowItems, c, a) ==
    IF i <= 0 \/ a.exc # "none" THEN a
    ELSE LET Opened(s) ==
                 IF s.exc # "none" THEN s
                 ELSE [s EXCEPT !.chest = Chest(s.locals["name"], s.locals["x"],
                                                s.locals["y"]),
                                !.regular = 0, !.overflow = 0]
             Added(s) ==
                 IF s.exc # "none" THEN s
                 ELSE [s EXCEPT !.chests = Append(@, s.chest),
                                !.log = Append(@, [regular |-> s.regular,
                                                   overflow |-> s.overflow])]
         IN  ChestsLoop(i - 1, itemsPerChest, overflowItems, c,
                 Added(ChestOverflow(0, overflowItems, c,
                       ChestItems(0, itemsPerChest, c,
                       Opened(Local("name", SectionReadString(c,
                              Local("y", SectionRead(SInt32Type, c,
                              Local("x", SectionRead(SInt32Type, c, a)))))))))))

\* itemsPerChest and overflowItems from maxItems
ItemsSplit(maxItems) ==
    IF maxItems >= MAX_ITEMS
    THEN [itemsPerChest |-> MAX_ITEMS, overflowItems |-> maxItems - MAX_ITEMS]
    ELSE [itemsPerChest |-> maxItems, overflowItems |-> 0]

\* LoadChests(): [exc, pos, chests, maxItems, log]
LoadChests(header, c, p) ==
    LET Split(s, split) ==
            ChestsLoop(s.locals["totalChests"], split.itemsPerChest,
                       split.overflowItems, c, [s EXCEPT !.maxItems = s.value])
        Counted(s) ==
            IF s.exc # "none" THEN s ELSE Split(s, ItemsSplit(s.value))
    IN  Counted(SectionRead(UInt16Type, c,
            Local("totalChests", SectionRead(UInt16Type, c,
                [exc |-> "none",
                 pos |-> Seek(GetChestsPointer(header), "SEEK_SET", c, p),
                 value |-> 0, locals |-> <<>>, slot |-> <<>>,
                 chest |-> Chest(<<>>, 0, 0), regular |-> 0, overflow |-> 0,
                 chests |-> <<>>, log |-> <<>>, maxItems |-> 0]))))

(***************************************************************************)
(* World.LoadSigns, LoadNPCs, LoadTileEntities, LoadFooter (Entity.py)     *)
(***************************************************************************)
ENTITY_DUMMY == 0
ENTITY_ITEM_FRAME == 1

\* for i in range(totalSigns): text, x, y; signs.append((x, y, text))
RECURSIVE SignsLoop(_, _, _)
SignsLoop(i, c, a) ==
    IF i <= 0 \/ a.exc # "none" THEN a
    ELSE LET Add(s) ==
                 IF s.exc # "none" THEN s
                 ELSE [s EXCEPT !.list = Append(@, <<s.locals["x"], s.locals["y"],
                                                     s.locals["text"]>>)]
         IN  SignsLoop(i - 1, c,
                 Add(Local("y", SectionRead(SInt32Type, c,
                     Local("x", SectionRead(SInt32Type, c,
                     Local("text", SectionReadString(c, a))))))))

\* LoadSigns(): [exc, pos, list]
LoadSigns(header, c, p) ==
    LET Loop(totalSigns) == SignsLoop(totalSigns.value, c, totalSigns)
    IN  Loop(SectionRead(SInt16Type, c,
            [exc |-> "none",
             pos |-> Seek(GetSignsPointer(header), "SEEK_SET", c, p),
             value |-> 0, locals |-> <<>>, list |-> <<>>]))

\* while self._stream.readBoolean(): ... npcs.append(npc)
RECURSIVE NPCsLoop(_, _)
NPCsLoop(c, a) ==
    LET Add(s) ==
            IF s.exc # "none" THEN s
            ELSE NPCsLoop(c,
                     [s EXCEPT !.list = Append(@,
                         [Type |-> "NPC", Name |-> s.locals["name"],
                          DisplayName |-> s.locals["dispname"],
                          Position |-> <<s.locals["pos_x"], s.locals["pos_y"]>>,
                          Homeless |-> s.locals["homeless"],
                          Home |-> <<s.locals["home_x"], s.locals["home_y"]>>])])
        More(m) ==
            IF m.exc # "none" \/ m.value = 0 THEN m
            ELSE Add(Local("home_y", SectionRead(SInt32Type, c,
                     Local("home_x", SectionRead(SInt32Type, c,
                     Local("homeless", SectionReadBoolean(c,
                     Local("pos_y", SectionRead(SingleType, c,
                     Local("pos_x", SectionRead(SingleType, c,
                     Local("dispname", SectionReadString(c,
                     Local("name", SectionReadString(c, m)))))))))))))))
    IN  More(SectionReadBoolean(c, a))

\* while self._stream.readBoolean(): ... mobs.append(mob)
RECURSIVE MobsLoop(_, _)
MobsLoop(c, a) ==
    LET Add(s) ==
            IF s.exc # "none" THEN s
            ELSE MobsLoop(c,
                     [s EXCEPT !.list = Append(@,
                         [Type |-> "Mob", Name |-> s.locals["name"],
                          Position |-> <<s.locals["pos_x"], s.locals["pos_y"]>>])])
        More(m) ==
            IF m.exc # "none" \/ m.value = 0 THEN m
            ELSE Add(Local("pos_y", SectionRead(SingleType, c,
                     Local("pos_x", SectionRead(SingleType, c,
                     Local("name", SectionReadString(c, m)))))))
    IN  More(SectionReadBoolean(c, a))

\* LoadNPCs with the mob loop entered whatever the version
LoadNPCsMobsAlways(header, c, p) ==
    LET Assigned(npcs) == [npcs EXCEPT !.npcs = <<npcs.list>>, !.list = <<>>]
        Mobs(npcs) ==
            IF npcs.exc # "none" THEN npcs
            ELSE MobsLoop(c, Assigned(npcs))
    IN  Mobs(NPCsLoop(c,
            [exc |-> "none", pos |-> Seek(GetNPCsPointer(header), "SEEK_SET", c, p),
             value |-> 0, locals |-> <<>>, list |-> <<>>, npcs |-> <<>>]))

\* LoadNPCs(): [exc, pos, npcs, list]; npcs is <<>> until self._npcs is
\* assigned, list is mobs
LoadNPCs(header, c, p) ==
    LET Assigned(npcs) == [npcs EXCEPT !.npcs = <<npcs.list>>, !.list = <<>>]
        Mobs(npcs) ==
            IF npcs.exc # "none" THEN npcs
            ELSE IF header.Version < Version140 THEN Assigned(npcs)
            ELSE MobsLoop(c, Assigned(npcs))
    IN  Mobs(NPCsLoop(c,
            [exc |-> "none", pos |-> Seek(GetNPCsPointer(header), "SEEK_SET", c, p),
             value |-> 0, locals |-> <<>>, list |-> <<>>, npcs |-> <<>>]))

\* one iteration of "for i in range(count)" of LoadTileEntities
TileEntity(c, a) ==
    LET Base(s) ==
            [Type |-> s.locals["type_"], ID |-> s.locals["id_"],
             Position |-> <<s.locals["pos_x"], s.locals["pos_y"]>>]
        Dummy(s) ==
            IF s.exc # "none" THEN s
            ELSE [s EXCEPT !.list = Append(@,
                     <<Base(s) @@ [Kind |-> "Dummy", NPC |-> s.locals["npc"]]>>)]
        ItemFrame(s) ==
            IF s.exc # "none" THEN s
            ELSE [s EXCEPT !.list = Append(@,
                     <<Base(s) @@ [Kind |-> "ItemFrame", Item |-> s.locals["item"],
                                   Prefix |-> s.locals["prefix"],
                                   Stack |-> s.locals["stack"]]>>)]
        Typed(s) ==
            IF s.exc # "none" THEN s
            ELSE IF s.locals["type_"] = ENTITY_DUMMY
            THEN Dummy(Local("npc", SectionRead(SInt16Type, c, s)))
            ELSE IF s.locals["type_"] = ENTITY_ITEM_FRAME
            THEN ItemFrame(Local("stack", SectionRead(SInt16Type, c,
                           Local("prefix", SectionRead(ByteType, c,
                           Local("item", SectionRead(SInt16Type, c, s)))))))
            ELSE [s EXCEPT !.list = Append(@, <<>>),
                           !.warnings = Append(@, "Unknown tile entity")]
    IN  Typed(Local("pos_y", SectionRead(SInt16Type, c,
              Local("pos_x", SectionRead(SInt16Type, c,
              Local("id_", SectionRead(SInt32Type, c,
              Local("type_", SectionRead(ByteType, c, a)))))))))

RECURSIVE TileEntitiesLoop(_, _, _)
TileEntitiesLoop(i, c, a) ==
    IF i <= 0 \/ a.exc # "none" THEN a
    ELSE TileEntitiesLoop(i - 1, c, TileEntity(c, a))

\* LoadTileEntities(): [exc, pos, list, warnings]; an entry of list is <<tent>>,
\* or <<>> for None
LoadTileEntities(header, c, p) ==
    LET Loop(count) == TileEntitiesLoop(count.value, c, count)
    IN  Loop(SectionRead(SInt32Type, c,
            [exc |-> "none",
             pos |-> Seek(GetTileEntitiesPointer(header), "SEEK_SET", c, p),
             value |-> 0, locals |-> <<>>, list |-> <<>>, warnings |-> <<>>]))

\* LoadFooter(): [exc, pos, footer]
LoadFooter(header, c, p) ==
    LET Return(s) ==
            [exc |-> s.exc, pos |-> s.pos,
             footer |-> IF s.exc # "none" THEN NoValue
                        ELSE [Loaded |-> s.locals["loaded"],
                              Title |-> s.locals["title"],
                              WorldID |-> s.locals["id"]]]
    IN  Return(Local("id", SectionRead(SInt32Type, c,
               Local("title", SectionReadString(c,
               Local("loaded", SectionReadBoolean(c,
                   [exc |-> "none",
                    pos |-> Seek(GetFooterPointer(header), "SEEK_SET", c, p),
                    value |-> 0, locals |-> <<>>])))))))

(***************************************************************************)
(* The reader on its own: any operation at any position of a small buffer  *)
(***************************************************************************)
\* "Encoding" of the module docstring: low seven bits first, high bit set on
\* every byte but the last
RECURSIVE EmitPacked7Int(_)
EmitPacked7Int(v) ==
    IF v > 127 THEN <<BitOr(BitAnd(v, 127), 128)>> \o EmitPacked7Int(ShiftRight(v, 7))
    ELSE <<v>>

RECURSIVE SeqsUpTo(_, _)
SeqsUpTo(S, n) ==
    IF n = 0 THEN {<<>>}
    ELSE LET shorter == SeqsUpTo(S, n - 1)
         IN  shorter \cup {Append(s, b) : s \in shorter, b \in S}

Alphabet == {0, 1, 128, 255}

VarintValues ==
    {0, 1, 127, 128, 300}
      \cup {Pow(128, k) - 1 : k \in 1..MaxGroups}
      \cup {Pow(128, k) : k \in 1..MaxGroups}
      \cup {Pow(2, 30) - 1}

SampleBuffers ==
    { <<12, 0, 211, 0>>,
      <<255, 255, 255, 127, 1>>,
      <<114, 101, 108, 111, 103, 105, 99, 1, 2>>,
      <<255, 255, 7, 0, 129, 128, 0>> }

\* a first byte and n - 1 bytes 0x80: n bytes with the high bit set
VarintRun(first, n) ==
    <<first>> \o [i \in 1..(n - 1) |-> 128]

\* encodings of 1 padded with empty groups: ten and eleven bytes with the
\* high bit set and the closing byte, and eleven without it
LongVarints ==
    { VarintRun(129, 10) \o <<0>>,
      VarintRun(129, 11) \o <<0>>,
      VarintRun(129, 11) }

ReaderBuffers ==
    SeqsUpTo(Alphabet, MaxLen) \cup {EmitPacked7Int(v) : v \in VarintValues}
      \cup SampleBuffers \cup LongVarints

FixedOps ==
    { [op |-> "readByte", t |-> ByteType],
      [op |-> "readInt8", t |-> SInt8Type],
      [op |-> "readUInt8", t |-> UInt8Type],
      [op |-> "readInt16", t |-> SInt16Type],
      [op |-> "readUInt16", t |-> UInt16Type],
      [op |-> "readInt32", t |-> SInt32Type],
      [op |-> "readUInt32", t |-> UInt32Type],
      [op |-> "readInt64", t |-> SInt64Type],
      [op |-> "readUInt64", t |-> UInt64Type],
      [op |-> "readSingle", t |-> SingleType],
      [op |-> "readDouble", t |-> DoubleType] }

\* the value of an unsigned 32-bit read is representable
Fits(t, c, p) ==
    (t.c = "I" /\ p + 4 <= Len(c)) => c[p + 4] < 128

InitReader ==
    /\ content \in ReaderBuffers
    /\ pos = 0
    /\ exc = "none"
    /\ result = PyNone
    /\ call = [op |-> "__init__", arg |-> PyNone, pos0 |-> 0]
    /\ world = NoWorld
    /\ loc = <<>>
    /\ pc = "reader"

Returns(op, arg, r) ==
    /\ call' = [op |-> op, arg |-> arg, pos0 |-> pos]
    /\ exc' = r.exc
    /\ result' = r.value
    /\ pos' = r.pos
    /\ UNCHANGED <<content, world, loc, pc>>

ReadFixed ==
    \E o \in FixedOps :
        /\ Fits(o.t, content, pos)
        /\ Returns(o.op, PyNone, Reader(o.t, content, pos))

ReadBoolean ==
    Returns("readBoolean", PyNone, readBoolean(content, pos))

ReadPacked7Int ==
    Returns("readPacked7Int", PyNone, readPacked7Int(content, pos))

ReadString ==
    Returns("readString", PyNone, readString(content, pos))

ReadBitArray ==
    \E nbits \in {-1, 0, 1, 7, 8, MaxBits} :
        Returns("readBitArray", nbits, readBitArray(nbits, content, pos))

DoSeek ==
    \E whence \in {"SEEK_CUR", "SEEK_SET", "SEEK_END"} :
        \E nbytes \in (0 - MaxSeek)..MaxSeek :
            Returns("seek", <<nbytes, whence>>,
                    [exc |-> "none", value |-> PyNone,
                     pos |-> Seek(nbytes, whence, content, pos)])

NextReader ==
    \/ ReadFixed
    \/ ReadBoolean
    \/ ReadPacked7Int
    \/ ReadString
    \/ ReadBitArray
    \/ DoSeek

SpecReader == InitReader /\ [][NextReader]_vars

(***************************************************************************)
(* Claims about the reader                                                 *)
(***************************************************************************)
\* C5: readPacked7Int applied at any position to the encoding of v (7 data
\* bits per byte, low group first, high bit on every byte but the last)
\* returns v and advances the position by the number of encoded bytes;
\* [0x7f] -> 127 in 1 byte, [0x80,0x01] -> 128 in 2, [0xff,0x7f] -> 16383 in
\* 2, and 0x4000 takes 3 bytes.
AtCall(bs) ==
    /\ call.pos0 + Len(bs) <= Len(content)
    /\ Slice(content, call.pos0, Len(bs)) = bs

Decoded(v, n) ==
    /\ exc = "none"
    /\ result = v
    /\ pos = call.pos0 + n

C5_VarintRoundTrip ==
    call.op = "readPacked7Int" =>
        /\ \A v \in VarintValues :
               AtCall(EmitPacked7Int(v)) => Decoded(v, Len(EmitPacked7Int(v)))
        /\ AtCall(<<127>>) => Decoded(127, 1)
        /\ AtCall(<<128, 1>>) => Decoded(128, 2)
        /\ AtCall(<<255, 127>>) => Decoded(16383, 2)
        /\ AtCall(<<128, 128, 1>>) => Decoded(16384, 3)

C5_Witness ==
    /\ call.op = "readPacked7Int"
    /\ AtCall(EmitPacked7Int(16384))
    /\ Decoded(16384, 3)

\* C6: a fixed-width read of width n at position p with p + n <= len(buf)
\* returns the little-endian value of bytes p..p+n-1 and moves the position
\* to p + n; with fewer than n bytes left it raises instead of returning.
IsLittleEndianOf(t, v, bs) ==
    IF t.c \in {"B", "H", "I"}
    THEN /\ v >= 0
         /\ v \div Pow(256, t.n - 1) < 256
         /\ \A i \in 0..(t.n - 1) : (v \div Pow(256, i)) % 256 = bs[i + 1]
    ELSE IF t.c \in {"b", "h", "i"}
    THEN /\ v \div Pow(256, t.n - 1) \in -128..127
         /\ \A i \in 0..(t.n - 1) : (v \div Pow(256, i)) % 256 = bs[i + 1]
    ELSE Len(v) = t.n + 1 /\ \A i \in 1..t.n : v[i + 1] = bs[i]

C6_FixedWidthReads ==
    \A o \in FixedOps :
        call.op = o.op =>
            IF call.pos0 + o.t.n <= Len(content)
            THEN /\ exc = "none"
                 /\ pos = call.pos0 + o.t.n
                 /\ IsLittleEndianOf(o.t, result, Slice(content, call.pos0, o.t.n))
            ELSE /\ exc \in {"struct.error", "EOFError"}
                 /\ result = NoValue

C6_Witness ==
    /\ call.op = "readInt16"
    /\ call.pos0 = 1
    /\ content = <<0, 1, 255>>
    /\ exc = "none"
    /\ result = -255
    /\ pos = 3

C6_WitnessEof ==
    /\ call.op = "readInt32"
    /\ call.pos0 + 4 > Len(content)
    /\ Len(content) - call.pos0 = 3
    /\ exc = "struct.error"

\* C7: readBitArray(n) consumes ceil(n/8) bytes and returns n booleans, bit i
\* being bit (i mod 8), counted from the least significant, of byte
\* floor(i/8); without n a 16-bit length is read first, and
\* [0x0c,0x00,0xd3,0x00] decodes to 1,1,0,0,1,0,1,1,0,0,0,0.
BitOf(b, k) ==
    (b \div Pow(2, k)) % 2 = 1

C7_WitnessCount ==
    /\ call.op = "readBitArray"
    /\ call.arg = MaxBits
    /\ exc = "none"
    /\ pos = call.pos0 + 2
    /\ \E i \in 1..MaxBits : result[i]

(***************************************************************************)
(* The tile codec on its own: FromStream called repeatedly on a buffer     *)
(***************************************************************************)
ImportantSome ==
    [i \in 1..145 |-> (i - 1) \in {3, 5, 144}]

TileTails ==
    { <<>>,
      <<5>>,
      <<3>>,
      <<3, 8, 7, 9>>,
      <<0, 0, 0, 0>>,
      <<3, 24, 144, 0, 7, 0, 9, 2, 200, 1, 0, 0>>,
      <<144, 1, 0, 2, 0, 5, 6, 255, 255, 1>>,
      <<1, 6, 3, 10, 0, 20, 0, 9, 8, 7, 255, 127>>,
      <<92, 200, 1, 2, 3, 4, 5, 6, 7>>,
      <<255, 255, 255, 255, 255, 255, 255, 255, 255, 255, 255, 255>> }

TileBuffers ==
    {<<h>> \o t : h \in 0..255, t \in TileTails}

InitTile ==
    /\ content \in TileBuffers
    /\ pos = 0
    /\ exc = "none"
    /\ result = PyNone
    /\ call = [op |-> "__init__", arg |-> PyNone, pos0 |-> 0]
    /\ world = NoWorld
    /\ loc \in {[importantTiles |-> <<>>], [importantTiles |-> ImportantSome]}
    /\ pc = "tile"

TileFromStream ==
    /\ pc = "tile"
    /\ exc = "none"
    /\ LET r == FromStream(content, pos, loc.importantTiles)
       IN  /\ call' = [op |-> "FromStream", arg |-> PyNone, pos0 |-> pos]
           /\ exc' = r.exc
           /\ pos' = r.pos
           /\ result' = [tile |-> r.tile, rle |-> r.rle, log |-> r.log]
    /\ UNCHANGED <<content, world, loc, pc>>

NextTile ==
    TileFromStream

SpecTile == InitTile /\ [][NextTile]_vars

(***************************************************************************)
(* Claims about the tile codec                                             *)
(***************************************************************************)
\* the record's header bytes, taken from the buffer
Hdr1 == content[call.pos0 + 1]
HasHdr2 == Hdr1 % 2 = 1
Hdr2 == IF HasHdr2 THEN content[call.pos0 + 2] ELSE 0
HasHdr3 == HasHdr2 /\ Hdr2 % 2 = 1
Hdr3 == IF HasHdr3 THEN content[call.pos0 + 3] ELSE 0
HdrBit(h, k) == (h \div Pow(2, k)) % 2 = 1
TypeEnd ==
    call.pos0 + 1 + (IF HasHdr2 THEN 1 ELSE 0) + (IF HasHdr3 THEN 1 ELSE 0)
      + (IF HdrBit(Hdr1, 5) THEN 2 ELSE 1)

Int16At(off) ==
    LET v == content[off + 1] + 256 * content[off + 2]
    IN  IF v >= 32768 THEN v - 65536 ELSE v

FieldRead(label) ==
    \E k \in 1..Len(result.log) : result.log[k][1] = label

RECURSIVE LogBytes(_)
LogBytes(log) ==
    IF log = <<>> THEN 0 ELSE Head(log)[2] + LogBytes(Tail(log))

TileDecoded ==
    call.op = "FromStream" /\ exc = "none"

\* C2: for every active tile record, u and v are read from the stream iff
\* important_tiles[type] is true; when they are not read they keep -1 and no
\* byte is consumed for them.
C2_ImportantTilesGate ==
    (TileDecoded /\ result.tile.IsActive) =>
        LET ty == result.tile.Type
            imp == ty < Len(loc.importantTiles) /\ loc.importantTiles[ty + 1]
        IN  /\ FieldRead("U") <=> imp
            /\ FieldRead("V") <=> imp
            /\ pos - call.pos0 = LogBytes(result.log)
            /\ imp => /\ result.tile.U = Int16At(TypeEnd)
                      /\ ty # Timers => result.tile.V = Int16At(TypeEnd + 2)
            /\ ~imp => result.tile.U = -1 /\ result.tile.V = -1

C2_WitnessRead ==
    /\ TileDecoded
    /\ result.tile.IsActive
    /\ result.tile.Type = 3
    /\ FieldRead("U")
    /\ result.tile.U = 10
    /\ result.tile.V = 20

C2_WitnessNotRead ==
    /\ TileDecoded
    /\ result.tile.IsActive
    /\ result.tile.Type = 200
    /\ Len(loc.importantTiles) > 0
    /\ ~FieldRead("U")
    /\ result.tile.U = -1

\* C10: each field whose governing header bit is clear keeps its default:
\* Type 0 when not active, U = V = -1 when the frame coordinates are not
\* read, Wall 0 without the wall bit, TileColor and WallColor 0 without the
\* paint bits, wires false and BrickStyle Full without header byte 2,
\* Actuator and InActive false without header byte 3; header 0x00 alone is
\* an inactive tile with wall 0, no liquid and rle 0.
C10_TileDefaults ==
    TileDecoded =>
        LET t == result.tile
        IN  /\ ~HdrBit(Hdr1, 1) => ~t.IsActive /\ t.Type = 0
            /\ ~FieldRead("U") => t.U = -1
            /\ ~FieldRead("V") => t.V = -1
            /\ ~HdrBit(Hdr1, 2) => t.Wall = 0
            /\ ~HdrBit(Hdr3, 3) => t.TileColor = 0
            /\ ~HdrBit(Hdr3, 4) => t.WallColor = 0
            /\ ~HasHdr2 => /\ ~t.WireRed /\ ~t.WireGreen /\ ~t.WireBlue
                           /\ t.BrickStyle = 0
            /\ ~HasHdr3 => ~t.Actuator /\ ~t.InActive
            /\ Hdr1 = 0 => /\ ~t.IsActive
                           /\ t.Wall = 0
                           /\ t.LiquidType = 0
                           /\ t.LiquidAmount = 0
                           /\ result.rle = 0
                           /\ pos = call.pos0 + 1
                           /\ t = NewTile

C10_Witness ==
    /\ TileDecoded
    /\ Hdr1 = 0
    /\ ~result.tile.IsActive
    /\ result.tile.U = -1
    /\ result.rle = 0

C10_WitnessPartial ==
    /\ TileDecoded
    /\ HdrBit(Hdr1, 1)
    /\ HasHdr2
    /\ ~HasHdr3
    /\ result.tile.WireRed
    /\ result.tile.TileColor = 0
    /\ result.tile.V = -1

\* C12: every tile Tile.FromStream returns has LiquidAmount > 0 exactly
\* when its LiquidType is not LiquidType.None_.
C12_LiquidInvariant ==
    (call.op = "FromStream" /\ exc = "none")
        => (result.tile.LiquidAmount > 0 <=> result.tile.LiquidType # 0)

\* a liquid amount is never kept without a liquid type
C12_LiquidAmountTyped ==
    (call.op = "FromStream" /\ exc = "none")
        => (result.tile.LiquidAmount > 0 => result.tile.LiquidType # 0)

\* a record whose header names water and whose amount byte is 0
C12_WitnessDryWater ==
    /\ call.op = "FromStream"
    /\ exc = "none"
    /\ content[1] = 8
    /\ result.tile.LiquidType = 1
    /\ result.tile.LiquidAmount = 0
    /\ pos = 2

(***************************************************************************)
(* World.__init__ and World.Load as a sequence of steps                    *)
(***************************************************************************)
\* World.__init__: an attribute that is None is <<>>, one that was assigned
\* the value v is <<v>>.  heap holds the Tile objects created so far; a cell
\* of a tile list is the index of its object in heap, 0 for None.
World(read_only, load_tiles, load_chests, load_signs, load_npcs, load_tents) ==
    [readonly |-> read_only, header |-> <<>>, flags |-> <<>>, tiles |-> <<>>,
     chests |-> <<>>, signs |-> <<>>, npcs |-> <<>>, mobs |-> <<>>,
     tents |-> <<>>, footer |-> <<>>, width |-> 0, height |-> 0,
     loaded |-> FALSE, tile_counts |-> <<>>, wall_counts |-> <<>>,
     should_load_tiles |-> load_tiles, should_load_chests |-> load_chests,
     should_load_signs |-> load_signs, should_load_npcs |-> load_npcs,
     should_load_tents |-> load_tents,
     heap |-> <<>>, warnings |-> <<>>]

\* the locals of LoadTiles before it runs
NoLocals(optimize) ==
    [optimize |-> optimize, x |-> 0, y |-> 0, w |-> 0, h |-> 0, start |-> 0,
     end |-> 0, nloaded |-> 0, tiles |-> <<>>]

\* "assert self._pos() == pointer": python -O compiles no assert statement
Asserted(optimize, p, pointer) ==
    IF ~optimize /\ p # pointer THEN "AssertionError" ELSE "none"

\* the first exception of a sequence of outcomes, "none" when there is none
RECURSIVE FirstRaised(_)
FirstRaised(es) ==
    IF es = <<>> THEN "none"
    ELSE IF Head(es) # "none" THEN Head(es) ELSE FirstRaised(Tail(es))

\* the control position after a step that ended with exception e
Goto(next, e) == IF e = "none" THEN next ELSE "raised"

\* a section boundary a step compared the stream position with
Boundary(section, after, pointer) ==
    [section |-> section, after |-> after, pointer |-> pointer]

\* self.LoadHeader(); assert self._pos() == GetFlagsPointer()
LoadingHeader ==
    /\ pc = "header"
    /\ \E r \in {LoadHeader(content, pos)} :
       LET e == IF r.exc # "none" THEN r.exc
                ELSE Asserted(loc.optimize, r.pos, GetFlagsPointer(r.header))
       IN  /\ pos' = r.pos
           /\ exc' = e
           /\ world' = IF r.exc = "none"
                       THEN [world EXCEPT !.header = <<r.header>>, !.loaded = TRUE]
                       ELSE world
           /\ call' = [op |-> "LoadHeader", pos0 |-> pos,
                       arg |-> IF r.exc # "none" THEN <<>>
                               ELSE <<Boundary("header", r.pos, GetFlagsPointer(r.header))>>]
           /\ result' = PyNone
           /\ pc' = Goto("flags", e)
    /\ UNCHANGED <<content, loc>>

\* self.LoadFlags(); assert self._pos() == GetTilesPointer(); width, height
LoadingFlags ==
    /\ pc = "flags"
    /\ \E header \in {world.header[1]} :
       \E r \in {LoadFlags(header, content, pos)} :
       LET e == IF r.exc # "none" THEN r.exc
                ELSE Asserted(loc.optimize, r.pos, GetTilesPointer(header))
       IN  /\ pos' = r.pos
           /\ exc' = e
           /\ world' = IF r.exc = "none"
                       THEN [world EXCEPT !.flags = <<r.flags>>,
                                          !.width = r.flags["TilesWide"],
                                          !.height = r.flags["TilesHigh"]]
                       ELSE world
           /\ call' = [op |-> "LoadFlags", pos0 |-> pos,
                       arg |-> IF r.exc # "none" THEN <<>>
                               ELSE <<Boundary("flags", r.pos, GetTilesPointer(header))>>]
           /\ result' = [flags |-> r.flags, log |-> r.log]
           /\ pc' = Goto("tiles", e)
    /\ UNCHANGED <<content, loc>>

\* the end of LoadTiles and the assert after it: the outcome of the step
\* that leaves the loops at position p with locals l and World wd
TilesLoaded(p, l, wd) ==
    LET e == Asserted(l.optimize, p, GetChestsPointer(wd.header[1]))
    IN  [exc |-> e, pc |-> Goto("chests", e),
         world |-> [wd EXCEPT !.tiles = <<l.tiles>>,
                              !.warnings = @ \o TileWarnings(p, l)],
         arg |-> <<Boundary("tiles", p, GetChestsPointer(wd.header[1]))>>]

\* LoadTiles(TilesWide, TilesHigh) up to the first record, or the seek_set
\* that stands for it
LoadingTiles ==
    /\ pc = "tiles"
    /\ IF world.should_load_tiles
       THEN \E header \in {world.header[1]} :
            \E w \in {world.flags[1]["TilesWide"]} :
            \E h \in {world.flags[1]["TilesHigh"]} :
            \E p \in {Seek(GetTilesPointer(header), "SEEK_SET", content, pos)} :
            \E end \in {SectionPointer(header, 2)} :
            \E at \in {OuterLoop(0, 0, w, h, p, end)} :
            \E l \in {[loc EXCEPT !.x = at.x, !.y = at.y, !.w = w, !.h = h,
                                  !.start = SectionPointer(header, 1), !.end = end,
                                  !.nloaded = 0,
                                  !.tiles = [i \in 1..(w * h) |-> 0]]} :
            \E done \in {TilesLoaded(p, l, world)} :
                /\ pos' = p
                /\ loc' = l
                /\ exc' = IF at.more THEN "none" ELSE done.exc
                /\ pc' = IF at.more THEN "record" ELSE done.pc
                /\ world' = IF at.more THEN world ELSE done.world
                /\ call' = [op |-> "LoadTiles", pos0 |-> pos,
                            arg |-> IF at.more THEN <<>> ELSE done.arg]
       ELSE /\ pos' = Seek(GetChestsPointer(world.header[1]), "SEEK_SET", content, pos)
            /\ exc' = "none"
            /\ pc' = "chests"
            /\ call' = [op |-> "seek_set", pos0 |-> pos, arg |-> <<>>]
            /\ UNCHANGED <<world, loc>>
    /\ result' = PyNone
    /\ UNCHANGED content

\* one pass of the inner loop body, then the loop tests up to the next
\* record or to the end of LoadTiles
LoadingTile ==
    /\ pc = "record"
    /\ \E r \in {TileRecord(content, pos, world, loc)} :
       \E at \in {InnerLoop(r.l.x, r.l.y, r.l.w, r.l.h, r.pos, r.l.end)} :
       \E l \in {[r.l EXCEPT !.x = at.x, !.y = at.y]} :
       \E done \in {TilesLoaded(r.pos, l, r.wd)} :
           /\ pos' = r.pos
           /\ result' = [x |-> loc.x, y |-> loc.y, tile |-> r.tile, rle |-> r.rle,
                         decoded |-> r.decoded]
           /\ call' = [op |-> "Tile.FromStream", pos0 |-> pos,
                       arg |-> IF r.exc # "none" \/ at.more THEN <<>> ELSE done.arg]
           /\ IF r.exc # "none"
              THEN /\ exc' = r.exc
                   /\ pc' = "raised"
                   /\ loc' = r.l
                   /\ world' = r.wd
              ELSE /\ loc' = l
                   /\ exc' = IF at.more THEN "none" ELSE done.exc
                   /\ pc' = IF at.more THEN "record" ELSE done.pc
                   /\ world' = IF at.more THEN r.wd ELSE done.world
    /\ UNCHANGED content

\* self.LoadChests(); assert self._pos() == GetSignsPointer(), or seek_set
LoadingChests ==
    /\ pc = "chests"
    /\ \E header \in {world.header[1]} :
           IF world.should_load_chests
           THEN \E r \in {LoadChests(header, content, pos)} :
                LET e == IF r.exc # "none" THEN r.exc
                         ELSE Asserted(loc.optimize, r.pos, GetSignsPointer(header))
                IN  /\ pos' = r.pos
                    /\ exc' = e
                    /\ pc' = Goto("signs", e)
                    /\ world' = IF r.exc = "none"
                                THEN [world EXCEPT !.chests = <<r.chests>>]
                                ELSE world
                    /\ result' = [maxItems |-> r.maxItems, chests |-> r.chests,
                                  log |-> r.log]
                    /\ call' = [op |-> "LoadChests", pos0 |-> pos,
                                arg |-> IF r.exc # "none" THEN <<>>
                                        ELSE <<Boundary("chests", r.pos,
                                                        GetSignsPointer(header))>>]
           ELSE /\ pos' = Seek(GetSignsPointer(header), "SEEK_SET", content, pos)
                /\ exc' = "none"
                /\ pc' = "signs"
                /\ result' = PyNone
                /\ call' = [op |-> "seek_set", pos0 |-> pos, arg |-> <<>>]
                /\ UNCHANGED world
    /\ UNCHANGED <<content, loc>>

\* self.LoadSigns(); assert self._pos() == GetNPCsPointer(), or seek_set
LoadingSigns ==
    /\ pc = "signs"
    /\ \E header \in {world.header[1]} :
           IF world.should_load_signs
           THEN \E r \in {LoadSigns(header, content, pos)} :
                LET e == IF r.exc # "none" THEN r.exc
                         ELSE Asserted(loc.optimize, r.pos, GetNPCsPointer(header))
                IN  /\ pos' = r.pos
                    /\ exc' = e
                    /\ pc' = Goto("npcs", e)
                    /\ world' = IF r.exc = "none"
                                THEN [world EXCEPT !.signs = <<r.list>>]
                                ELSE world
                    /\ call' = [op |-> "LoadSigns", pos0 |-> pos,
                                arg |-> IF r.exc # "none" THEN <<>>
                                        ELSE <<Boundary("signs", r.pos,
                                                        GetNPCsPointer(header))>>]
           ELSE /\ pos' = Seek(GetNPCsPointer(header), "SEEK_SET", content, pos)
                /\ exc' = "none"
                /\ pc' = "npcs"
                /\ call' = [op |-> "seek_set", pos0 |-> pos, arg |-> <<>>]
                /\ UNCHANGED world
    /\ result' = PyNone
    /\ UNCHANGED <<content, loc>>

\* self.LoadNPCs(), or seek_set(GetTileEntitiesPointer())
LoadingNPCs ==
    /\ pc = "npcs"
    /\ \E header \in {world.header[1]} :
           IF world.should_load_npcs
           THEN \E r \in {LoadNPCs(header, content, pos)} :
                    /\ pos' = r.pos
                    /\ exc' = r.exc
                    /\ pc' = Goto("tents", r.exc)
                    /\ world' = [world EXCEPT
                                     !.npcs = IF r.npcs = <<>> THEN @ ELSE r.npcs,
                                     !.mobs = IF r.exc = "none" THEN <<r.list>> ELSE @]
                    /\ call' = [op |-> "LoadNPCs", pos0 |-> pos, arg |-> <<>>]
           ELSE /\ pos' = Seek(GetTileEntitiesPointer(header), "SEEK_SET", content, pos)
                /\ exc' = "none"
                /\ pc' = "tents"
                /\ call' = [op |-> "seek_set", pos0 |-> pos, arg |-> <<>>]
                /\ UNCHANGED world
    /\ result' = PyNone
    /\ UNCHANGED <<content, loc>>

\* if Version >= Version140: assert, self.LoadTileEntities(), or seek_set
LoadingTileEntities ==
    /\ pc = "tents"
    /\ \E header \in {world.header[1]} :
           IF header.Version >= Version140 /\ world.should_load_tents
           THEN \E r \in {LoadTileEntities(header, content, pos)} :
                LET e0 == Asserted(loc.optimize, pos, GetTileEntitiesPointer(header))
                    e == FirstRaised(<<e0, r.exc>>)
                IN  /\ pos' = IF e0 # "none" THEN pos ELSE r.pos
                    /\ exc' = e
                    /\ pc' = Goto("footer", e)
                    /\ world' = IF e = "none"
                                THEN [world EXCEPT !.tents = <<r.list>>,
                                                   !.warnings = @ \o r.warnings]
                                ELSE IF e0 = "none"
                                THEN [world EXCEPT !.warnings = @ \o r.warnings]
                                ELSE world
                    /\ call' = [op |-> "LoadTileEntities", pos0 |-> pos,
                                arg |-> <<Boundary("npcs", pos,
                                                   GetTileEntitiesPointer(header))>>]
           ELSE /\ pos' = IF header.Version >= Version140
                          THEN Seek(GetFooterPointer(header), "SEEK_SET", content, pos)
                          ELSE pos
                /\ exc' = "none"
                /\ pc' = "footer"
                /\ call' = [op |-> IF header.Version >= Version140
                                   THEN "seek_set" ELSE "pass",
                            pos0 |-> pos, arg |-> <<>>]
                /\ UNCHANGED world
    /\ result' = PyNone
    /\ UNCHANGED <<content, loc>>

\* the warnings of Load after LoadFooter
FooterWarnings(footer, flags) ==
    (IF footer.Loaded = 0 THEN <<"Invalid footer detected!">> ELSE <<>>)
    \o (IF footer.Title # flags["Title"]
        THEN <<"Footer title does not match header title">> ELSE <<>>)
    \o (IF footer.WorldID # flags["WorldId"]
        THEN <<"Footer ID does not match header ID">> ELSE <<>>)

\* assert self._pos() == GetFooterPointer(); self.LoadFooter(); the warnings
LoadingFooter ==
    /\ pc = "footer"
    /\ \E header \in {world.header[1]} :
       \E r \in {LoadFooter(header, content, pos)} :
       LET e0 == Asserted(loc.optimize, pos, GetFooterPointer(header))
           e == FirstRaised(<<e0, r.exc>>)
       IN  /\ pos' = IF e0 # "none" THEN pos ELSE r.pos
           /\ exc' = e
           /\ pc' = Goto("done", e)
           /\ world' = IF e = "none"
                       THEN [world EXCEPT
                                !.footer = <<r.footer>>,
                                !.warnings = @ \o FooterWarnings(r.footer, world.flags[1])]
                       ELSE world
           /\ call' = [op |-> "LoadFooter", pos0 |-> pos,
                       arg |-> <<Boundary(IF header.Version >= Version140
                                             /\ world.should_load_tents
                                          THEN "tents" ELSE "npcs",
                                          pos, GetFooterPointer(header))>>]
    /\ result' = PyNone
    /\ UNCHANGED <<content, loc>>

\* world.GetTile(x, y).Wall = v by the caller of a loaded world:
\* self._tiles[self._PosToIdx(x, y)] is the object the cell refers to; the
\* assignment changes that object, whichever cells refer to it
SettingTile ==
    /\ pc = "done"
    /\ \E x \in 0..(world.width - 1), y \in 0..(world.height - 1) :
       \E id \in {IF world.tiles = <<>> THEN 0
                  ELSE world.tiles[1][PosToIdx(world.width, x, y) + 1]} :
           /\ call' = [op |-> "GetTile", pos0 |-> pos, arg |-> <<x, y>>]
           /\ IF world.tiles = <<>>
              THEN /\ exc' = "TypeError"
                   /\ pc' = "raised"
                   /\ result' = NoValue
                   /\ UNCHANGED world
              ELSE IF id = 0
              THEN /\ exc' = "AttributeError"
                   /\ pc' = "raised"
                   /\ result' = PyNone
                   /\ UNCHANGED world
              ELSE /\ exc' = "none"
                   /\ pc' = "modified"
                   /\ world' = [world EXCEPT !.heap[id].Wall = 200]
                   /\ result' = world'.heap[id]
    /\ UNCHANGED <<content, pos, loc>>

(***************************************************************************)
(* World files: the bytes Load is given                                    *)
(***************************************************************************)
\* dimensions of the tile grid of the sample worlds
MaxWide == 2
MaxHigh == 3

\* n bytes, low byte first, of v (two's complement when negative)
RECURSIVE EmitLE(_, _)
EmitLE(v, n) ==
    IF n = 0 THEN <<>> ELSE <<v % 256>> \o EmitLE(v \div 256, n - 1)

\* an extended Pascal string
EmitString(s) == EmitPacked7Int(Len(s)) \o s

RECURSIVE ConcatRange(_, _, _)
ConcatRange(ss, lo, hi) ==
    IF lo > hi THEN <<>>
    ELSE IF lo = hi THEN ss[lo]
    ELSE ConcatRange(ss, lo, (lo + hi) \div 2)
         \o ConcatRange(ss, (lo + hi) \div 2 + 1, hi)

\* the sequences of ss joined in order
Concat(ss) == ConcatRange(ss, 1, Len(ss))

RECURSIVE EmitBitBytes(_, _, _)
EmitBitBytes(j, nbits, S) ==
    IF 8 * j >= nbits THEN <<>>
    ELSE <<(IF 8 * j \in S THEN 1 ELSE 0)
           + 2 * (IF 8 * j + 1 \in S THEN 1 ELSE 0)
           + 4 * (IF 8 * j + 2 \in S THEN 1 ELSE 0)
           + 8 * (IF 8 * j + 3 \in S THEN 1 ELSE 0)
           + 16 * (IF 8 * j + 4 \in S THEN 1 ELSE 0)
           + 32 * (IF 8 * j + 5 \in S THEN 1 ELSE 0)
           + 64 * (IF 8 * j + 6 \in S THEN 1 ELSE 0)
           + 128 * (IF 8 * j + 7 \in S THEN 1 ELSE 0)>>
         \o EmitBitBytes(j + 1, nbits, S)

\* a bit array of nbits bits, those of S set, behind its 16-bit length
EmitBitArray(nbits, S) ==
    EmitLE(nbits, 2) \o EmitBitBytes(0, nbits, {k \in S : k < nbits})

\* the bytes of entry i of the schema in the world f
EmitFlag(i, f) ==
    LET Emit(flag) ==
            CASE flag.name = "TilesWide" -> EmitLE(f.w, 4)
              [] flag.name = "TilesHigh" -> EmitLE(f.h, 4)
              [] flag.name = "GroundLevel" -> f.ground
              [] flag.name = "NumAnglers" -> EmitLE(Len(f.anglers), 4)
              [] flag.name = "Anglers" ->
                     Concat([k \in DOMAIN f.anglers |-> EmitString(f.anglers[k])])
              [] flag.name = "KilledMobCount" -> EmitLE(Len(f.killed), 2)
              [] flag.name = "KilledMobs" ->
                     Concat([k \in DOMAIN f.killed |-> EmitLE(f.killed[k], 4)])
              [] flag.name = "UnknownFlags" -> f.unknown
              [] flag.type.c = "?" -> <<i % 2>>
              [] flag.type.c = "b" -> <<256 - i>>
              [] flag.type.c = "H" -> EmitLE(300 + i, 2)
              [] flag.type.c = "I" -> EmitLE(1000 + i, 4)
              [] flag.type.c = "Q" -> <<i, 1, 0, 0, 0, 0, 0, 0>>
              [] flag.type.c = "d" -> <<i, 0, 0, 0, 0, 0, 240, 63>>
              [] flag.type.c = "f" -> <<i, 0, 128, 63>>
    IN  Emit(Flags[i])

\* the entries the game writes at version f.version, in schema order
EmitFlags(f) ==
    LET Written(i, flag) == IF flag.ver > f.version THEN <<>> ELSE EmitFlag(i, f)
    IN  Concat([i \in DOMAIN Flags |-> Written(i, Flags[i])])

\* slot s of a chest: every seventh slot empty
EmitSlot(s) ==
    IF s % 7 = 3 THEN EmitLE(0, 2)
    ELSE EmitLE(s + 1, 2) \o EmitLE(100 + s, 4) \o <<s % 5>>

EmitChest(k, maxItems) ==
    EmitLE(10 + k, 4) \o EmitLE(20 + k, 4) \o EmitString(<<67, 48 + k>>)
    \o Concat([s \in 1..maxItems |-> EmitSlot(s - 1)])

EmitChests(f) ==
    EmitLE(f.chests, 2) \o EmitLE(f.maxItems, 2)
    \o Concat([k \in 1..f.chests |-> EmitChest(k, f.maxItems)])

EmitSigns(f) ==
    EmitLE(f.signs, 2)
    \o Concat([k \in 1..f.signs |->
                  EmitString(<<83, 48 + k>>) \o EmitLE(k, 4) \o EmitLE(-k, 4)])

EmitNPCs(f) ==
    Concat([k \in 1..f.npcs |->
               <<1>> \o EmitString(<<78, 48 + k>>) \o EmitString(<<68>>)
               \o <<0, 0, 128, 63>> \o <<0, 0, 0, 64>> \o <<k % 2>>
               \o EmitLE(k, 4) \o EmitLE(2 * k, 4)])
    \o <<0>>
    \o (IF f.version >= Version140
        THEN Concat([k \in 1..f.mobs |->
                        <<1>> \o EmitString(<<77, 48 + k>>)
                        \o <<0, 0, 128, 63>> \o <<0, 0, 0, 64>>]) \o <<0>>
        ELSE <<>>)

\* tile entities: kinds 0 (dummy), 1 (item frame), 2 (unknown) in turn
EmitTileEntities(f) ==
    IF f.version >= Version140
    THEN EmitLE(f.tents, 4)
         \o Concat([k \in 1..f.tents |->
                       <<(k - 1) % 3>> \o EmitLE(k, 4) \o EmitLE(k, 2) \o EmitLE(k + 1, 2)
                       \o CASE (k - 1) % 3 = 0 -> EmitLE(7, 2)
                            [] (k - 1) % 3 = 1 -> EmitLE(8, 2) \o <<9>> \o EmitLE(1, 2)
                            [] OTHER -> <<>>])
    ELSE <<>>

EmitFooter(f) ==
    <<1>> \o EmitString(f.title) \o EmitLE(1001, 4)

\* the sections after the header, each followed by its padding
Sections(f) ==
    <<EmitString(f.title) \o EmitFlags(f),
      f.tiles \o f.pad[1],
      EmitChests(f) \o f.pad[2],
      EmitSigns(f) \o f.pad[3],
      EmitNPCs(f) \o f.pad[4]>>
    \o (IF f.version >= Version140 THEN <<EmitTileEntities(f) \o f.pad[5]>> ELSE <<>>)
    \o <<EmitFooter(f)>>

\* offset of section k (1-based) given the offset of the first
RECURSIVE SectionStart(_, _, _)
SectionStart(k, ss, first) ==
    IF k = 1 THEN first ELSE SectionStart(k - 1, ss, first) + Len(ss[k - 1])

\* the whole file: header, pointers (pointer k declared f.early[k] bytes
\* before the section), sections; the last f.cut bytes missing
WorldFile(f) ==
    LET Cut(whole) == SubSeq(whole, 1, Len(whole) - f.cut)
        Pointers(ss, first) ==
            [k \in 1..f.nptr |->
                IF k <= Len(ss)
                THEN EmitLE(SectionStart(k, ss, first) - f.early[k], 4)
                ELSE EmitLE(0, 4)]
        File(ss, bits) ==
            Cut(EmitLE(f.version, 4) \o f.magic \o EmitLE(1, 4)
                \o <<0, 0, 0, 0, 0, 0, 0, 0>> \o EmitLE(f.nptr, 2)
                \o Concat(Pointers(ss, 26 + 4 * f.nptr + Len(bits) + Len(f.pad[6])))
                \o bits \o f.pad[6] \o Concat(ss))
    IN  File(Sections(f), EmitBitArray(f.nbits, f.important))

\* tile streams for a grid MaxWide by MaxHigh, filled a column at a time
TilesRuns ==         \* a run down column 0, a framed tile, a run of walls
    <<66, 1, 2>> \o <<2, 3, 18, 0, 36, 0>> \o <<68, 7, 1>>
TilesSingles ==      \* one record per cell
    <<0>> \o <<2, 1>> \o <<4, 7>> \o <<2, 3, 18, 0, 36, 0>> \o <<0>> \o <<2, 1>>
TilesOverrun ==      \* a run one cell longer than the column
    <<66, 1, 3>> \o <<0>> \o <<0>> \o <<0>>
TilesWideRle ==      \* 16-bit run lengths, one of them negative
    <<130, 1, 1, 0>> \o <<0>> \o <<130, 1, 255, 255>> \o <<0>> \o <<0>>
TilesShort ==        \* the section ends after column 0
    <<66, 1, 2>>
TilesMidRun ==       \* a run from the middle of column 0 to its end
    <<2, 1>> \o <<66, 1, 1>> \o <<68, 7, 2>>
TilesMidOverrun ==   \* a run from the middle of column 0 past its end
    <<2, 1>> \o <<66, 1, 2>> \o <<0>> \o <<0>> \o <<0>>
TilesCutRecord ==    \* the last record lacks its run length
    <<66, 1, 2>> \o <<2, 3, 18, 0, 36, 0>> \o <<68, 7>>

NoPad == <<<<>>, <<>>, <<>>, <<>>, <<>>, <<>>>>

BaseFile ==
    [version |-> 148, magic |-> RELOGIC_MAGIC \o <<FILETYPE_WORLD>>,
     nptr |-> SectionCount, nbits |-> 8, important |-> {3, 5},
     title |-> <<87, 49>>, w |-> MaxWide, h |-> MaxHigh,
     ground |-> <<0, 0, 0, 0, 0, 0, 120, 64>>,
     anglers |-> << <<65, 110>> >>, killed |-> <<7>>, unknown |-> <<>>,
     tiles |-> TilesRuns, chests |-> 1, maxItems |-> 40,
     signs |-> 1, npcs |-> 1, mobs |-> 1, tents |-> 3,
     pad |-> NoPad, early |-> [k \in 1..SectionCount |-> 0], cut |-> 0]

\* the worlds Load is run on: BaseFile with one thing changed
WorldFiles ==
    {[BaseFile EXCEPT !.tiles = t] :
        t \in {TilesRuns, TilesSingles, TilesOverrun, TilesWideRle, TilesShort,
               TilesMidRun, TilesMidOverrun, TilesCutRecord}}
    \cup {[BaseFile EXCEPT !.version = v] : v \in {102, 139, 140, 147}}
    \cup {[BaseFile EXCEPT !.version = v, !.tiles = <<>>] : v \in {0, 95, 101}}
    \cup {[BaseFile EXCEPT !.magic = m] :
             m \in {<<120, 101, 108, 111, 103, 105, 99, 1>>,
                    RELOGIC_MAGIC \o <<2>>,
                    <<0, 0, 0, 0, 0, 0, 0, 0>>}}
    \cup {[BaseFile EXCEPT !.maxItems = n] : n \in {39, 41, 45, 49, 50, 51}}
    \cup {[BaseFile EXCEPT !.chests = n, !.maxItems = 2] : n \in {0, 2}}
    \cup {[BaseFile EXCEPT !.ground = g] :
             g \in {<<0, 0, 0, 0, 0, 0, 248, 127>>, <<0, 0, 0, 0, 0, 0, 240, 255>>}}
    \cup {[BaseFile EXCEPT !.pad[k] = <<0>>] : k \in 1..6}
    \cup {[BaseFile EXCEPT !.early[k] = 1] : k \in {2, 3}}
    \cup {[BaseFile EXCEPT !.unknown = <<9, 8>>],
          [BaseFile EXCEPT !.anglers = <<>>, !.killed = <<7, 300>>],
          [BaseFile EXCEPT !.nptr = SectionCount + 1],
          [BaseFile EXCEPT !.nptr = 7],
          [BaseFile EXCEPT !.cut = 1],
          [BaseFile EXCEPT !.cut = 40],
          [BaseFile EXCEPT !.signs = 0, !.npcs = 0, !.mobs = 0, !.tents = 0]}

\* the arguments of World(): everything loaded, one section left out,
\* tiles copied (read_only=False)
LoadOptions ==
    {World(TRUE, TRUE, TRUE, TRUE, TRUE, TRUE),
     World(FALSE, TRUE, TRUE, TRUE, TRUE, TRUE),
     World(TRUE, FALSE, TRUE, TRUE, TRUE, TRUE),
     World(TRUE, TRUE, FALSE, TRUE, TRUE, TRUE),
     World(TRUE, TRUE, TRUE, FALSE, TRUE, TRUE),
     World(TRUE, TRUE, TRUE, TRUE, FALSE, TRUE),
     World(TRUE, TRUE, TRUE, TRUE, TRUE, FALSE)}

\* the worlds loaded under every choice of arguments
OptionFiles ==
    {BaseFile, [BaseFile EXCEPT !.version = 139], [BaseFile EXCEPT !.pad[2] = <<0>>]}

InitLoad ==
    /\ \E f \in WorldFiles :
          /\ content = WorldFile(f)
          /\ IF f \in OptionFiles
             THEN world \in LoadOptions
             ELSE world = World(TRUE, TRUE, TRUE, TRUE, TRUE, TRUE)
    /\ pos = 0
    /\ exc = "none"
    /\ result = PyNone
    /\ call = [op |-> "__init__", pos0 |-> 0, arg |-> <<>>]
    /\ loc \in {NoLocals(FALSE), NoLocals(TRUE)}
    /\ pc = "header"

NextLoad ==
    \/ LoadingHeader
    \/ LoadingFlags
    \/ LoadingTiles
    \/ LoadingTile
    \/ LoadingChests
    \/ LoadingSigns
    \/ LoadingNPCs
    \/ LoadingTileEntities
    \/ LoadingFooter
    \/ SettingTile

SpecLoad == InitLoad /\ [][NextLoad]_vars

(***************************************************************************)
(* Claims about World.Load                                                 *)
(***************************************************************************)
\* C1: a tile record (t, k) decoded at column x, row y with k >= 0 and
\* y + k < height leaves t in exactly the cells (x, y) .. (x, y + k): every
\* other cell of the grid, in this column or another, is as it was; the next
\* record, when there is one, is read for row y + k + 1 of the same column,
\* or for row 0 of column x + 1 when the column is full.
C1_RleExpansion ==
    [][(/\ pc = "record"
        /\ call'.op = "Tile.FromStream"
        /\ result'.decoded
        /\ result'.rle >= 0
        /\ loc.y + result'.rle < loc.h)
       => /\ \A x \in 0..(loc.w - 1), y \in 0..(loc.h - 1) :
                IF x = loc.x /\ loc.y <= y /\ y <= loc.y + result'.rle
                THEN /\ loc'.tiles[PosToIdx(loc.w, x, y) + 1] # 0
                     /\ world'.heap[loc'.tiles[PosToIdx(loc.w, x, y) + 1]]
                            = result'.tile
                ELSE loc'.tiles[PosToIdx(loc.w, x, y) + 1]
                         = loc.tiles[PosToIdx(loc.w, x, y) + 1]
          /\ exc' # "IndexError"
          /\ pc' = "record" =>
                <<loc'.x, loc'.y>> =
                    IF loc.y + result'.rle + 1 < loc.h
                    THEN <<loc.x, loc.y + result'.rle + 1>>
                    ELSE <<loc.x + 1, 0>>
      ]_vars

\* a run of two cells was written and the next record is due below it
C1_WitnessRun ==
    /\ call.op = "Tile.FromStream"
    /\ result.decoded
    /\ result.rle = 1
    /\ pc = "record"
    /\ loc.x = result.x
    /\ loc.y = result.y + 2
    /\ loc.tiles[PosToIdx(loc.w, result.x, result.y + 1) + 1] # 0

\* a run that ended on the last row of column 0: the next record is due at
\* the top of column 1
C1_WitnessNextColumn ==
    /\ call.op = "Tile.FromStream"
    /\ result.decoded
    /\ result.rle > 0
    /\ result.y + result.rle = loc.h - 1
    /\ pc = "record"
    /\ loc.x = result.x + 1
    /\ loc.y = 0

\* the checks the format asks of a header: the magic with the world
\* file-type tag, and a version the schema starts at
HeaderAccepted(header) ==
    /\ AssertValid(header)
    /\ header.Version >= CompatibleVersion

\* C3: a world whose header fails the magic test or the version test is
\* rejected: Load does not get past LoadFlags with it, and no flags, tiles,
\* chests, signs, NPCs, tile entities or footer are decoded from it.
C3_InvalidHeaderRejected ==
    (world.header # <<>> /\ ~HeaderAccepted(world.header[1]))
        => /\ pc \in {"flags", "raised"}
           /\ world.flags = <<>>
           /\ world.tiles = <<>>
           /\ world.chests = <<>>
           /\ world.signs = <<>>
           /\ world.npcs = <<>>
           /\ world.mobs = <<>>
           /\ world.tents = <<>>
           /\ world.footer = <<>>

\* a world with a foreign magic loaded to the end without an exception
C3_WitnessLoaded ==
    /\ pc = "done"
    /\ exc = "none"
    /\ ~AssertValid(world.header[1])
    /\ world.flags # <<>>
    /\ world.tiles # <<>>
    /\ world.footer # <<>>

\* the stream position after a section differs from the pointer declared
\* for the next one
Drifted(b) ==
    /\ b.section \in {"flags", "tiles", "chests", "signs", "npcs", "tents"}
    /\ b.after # b.pointer

\* C4: when the position after a section differs from the next declared
\* pointer the step does not abort on it and a warning is reported.
C4_DriftRecoverable ==
    \A k \in DOMAIN call.arg :
        Drifted(call.arg[k]) => exc # "AssertionError" /\ world.warnings # <<>>

\* one byte too many after the chests: the assert that follows LoadChests
\* raised and Load stopped
C4_WitnessAborted ==
    /\ call.op = "LoadChests"
    /\ Len(call.arg) = 1
    /\ Drifted(call.arg[1])
    /\ call.arg[1].pointer = call.arg[1].after + 1
    /\ exc = "AssertionError"
    /\ pc = "raised"

\* C8: the entries are taken in declared order; an entry above the file's
\* version consumes no byte and leaves the default of its flag (0, or the
\* empty list of a manually parsed entry); every other entry of a primitive
\* type whose bytes are in the file consumes the width of its declared type
\* and the value read is stored under its name.
C8_FlagSchemaGate ==
    call.op = "LoadFlags" =>
        \A k \in DOMAIN result.log :
            /\ result.log[k].name = Flags[k].name
            /\ FlagSkipped(Flags[k].ver, world.header[1].Version) =>
                  /\ result.log[k].pos1 = result.log[k].pos0
                  /\ result.flags[Flags[k].name] =
                         WorldFlags(world.header[1].Version)[Flags[k].name]
            /\ (/\ ~FlagSkipped(Flags[k].ver, world.header[1].Version)
                /\ Flags[k].type # NoneType
                /\ result.log[k].pos0 + Flags[k].type.n <= Len(content)) =>
                  /\ result.log[k].exc = "none"
                  /\ result.log[k].pos1 = result.log[k].pos0 + Flags[k].type.n
                  /\ result.flags[Flags[k].name] =
                         StructValue(ScalarReaderLookup(Flags[k].type),
                                     Slice(content, result.log[k].pos0,
                                           Flags[k].type.n))

\* GroundLevel is not a number: its eight bytes were consumed and the entry
\* raised TypeError
C8_WitnessNotANumber ==
    /\ call.op = "LoadFlags"
    /\ exc = "TypeError"
    /\ result.log # <<>>
    /\ result.log[Len(result.log)].name = "GroundLevel"
    /\ result.log[Len(result.log)].pos1 = result.log[Len(result.log)].pos0 + 8
    /\ result.flags["GroundLevel"] = 0

\* C9: each chest reads min(max_items, 40) regular slots and
\* max(0, max_items - 40) overflow slots.
C9_ChestSlotSplit ==
    call.op = "LoadChests" =>
        \A k \in DOMAIN result.log :
            /\ result.log[k].regular =
                   (IF result.maxItems <= 40 THEN result.maxItems ELSE 40)
            /\ result.log[k].overflow = Max(0, result.maxItems - 40)

\* max_items = 45: forty-five regular slots, no overflow slot
C9_WitnessFortyFive ==
    /\ call.op = "LoadChests"
    /\ exc = "none"
    /\ result.maxItems = 45
    /\ Len(result.log) = 1
    /\ result.log[1].regular = 45
    /\ result.log[1].overflow = 0
    /\ result.chests[1].overflow_items = <<>>

\* the tile seen through cell (x, y) of a tile list
CellTile(heap, tiles, w, x, y) == heap[tiles[PosToIdx(w, x, y) + 1]]

\* C11: with read_only=True the k + 1 cells of a run hold one tile object,
\* and a field written through one cell of the loaded world is read back
\* through every cell that holds that object; with read_only=False the
\* k + 1 cells hold k + 1 distinct objects with equal fields, and a field
\* written through one cell leaves the tile of every other cell as it was.
C11_ReadOnlySharing ==
    [][/\ (/\ pc = "record"
           /\ call'.op = "Tile.FromStream"
           /\ result'.decoded
           /\ result'.rle >= 0
           /\ loc.y + result'.rle < loc.h)
          => \A y1, y2 \in loc.y..(loc.y + result'.rle) :
                LET i1 == PosToIdx(loc.w, loc.x, y1) + 1
                    i2 == PosToIdx(loc.w, loc.x, y2) + 1
                IN  /\ loc'.tiles[i1] # 0
                    /\ world'.heap[loc'.tiles[i1]] = world'.heap[loc'.tiles[i2]]
                    /\ IF world.readonly
                       THEN loc'.tiles[i1] = loc'.tiles[i2]
                       ELSE y1 # y2 => loc'.tiles[i1] # loc'.tiles[i2]
       /\ (pc = "done" /\ pc' = "modified")
          => \A x \in 0..(world.width - 1), y \in 0..(world.height - 1) :
                LET i == PosToIdx(world.width, x, y) + 1
                    j == PosToIdx(world.width, call'.arg[1], call'.arg[2]) + 1
                    Seen(wd) == wd.heap[wd.tiles[1][i]]
                IN  world.tiles[1][i] # 0 =>
                       /\ world.tiles[1][i] = world.tiles[1][j]
                             => Seen(world') = [Seen(world) EXCEPT !.Wall = 200]
                       /\ world.tiles[1][i] # world.tiles[1][j]
                             => Seen(world') = Seen(world)
                       /\ ~world.readonly /\ i # j => Seen(world') = Seen(world)
      ]_vars

\* read_only=True: the wall written through the top cell of the run down
\* column 0 is read back through the bottom cell of the run
C11_WitnessShared ==
    /\ pc = "modified"
    /\ world.readonly
    /\ call.arg = <<0, 0>>
    /\ world.tiles[1][PosToIdx(world.width, 0, 2) + 1] = world.tiles[1][1]
    /\ CellTile(world.heap, world.tiles[1], world.width, 0, 2).Wall = 200

\* read_only=False: the same write leaves the bottom cell of the run with
\* the wall it was decoded with
C11_WitnessCopied ==
    /\ pc = "modified"
    /\ ~world.readonly
    /\ call.arg = <<0, 0>>
    /\ CellTile(world.heap, world.tiles[1], world.width, 0, 0).Wall = 200
    /\ CellTile(world.heap, world.tiles[1], world.width, 0, 2).Wall # 200
    /\ CellTile(world.heap, world.tiles[1], world.width, 0, 2).Type
          = CellTile(world.heap, world.tiles[1], world.width, 0, 0).Type

(***************************************************************************)
(* MapFile.py: Map.TileToLookup and Map.DoColorLookup                      *)
(***************************************************************************)
\* IDs.Tile and IDs.Wall: the game's tile and wall ids named by MapFile.py
IDsTile ==
    [Torches |-> 4, Containers |-> 21, DemonAltar |-> 26, Sunflower |-> 27,
     Pots |-> 28, ShadowOrbs |-> 31, ImmatureHerbs |-> 82, MatureHerbs |-> 83,
     BloomingHerbs |-> 84, Statues |-> 105, AdamantiteForge |-> 133,
     MythrilAnvil |-> 134, PressurePlates |-> 135, HolidayLights |-> 149,
     RainbowBrick |-> 160, Stalactite |-> 165, ExposedGems |-> 178,
     LongMoss |-> 184, SmallPiles |-> 185, LargePiles |-> 186,
     LargePiles2 |-> 187, DyePlants |-> 227, Painting3X3 |-> 240,
     Painting6X4 |-> 242]

IDsWall ==
    [Planked |-> 27]

\* Map.LOOKUP_*
LOOKUP_NONE == 0
LOOKUP_TILE == 1
LOOKUP_LIQUID == 2
LOOKUP_WALL == 3
LOOKUP_SKY == 4
LOOKUP_DIRT == 5
LOOKUP_ROCK == 6

\* Map.__init__: the sizes of the lookup tables
MaxTileOpts == 12
MaxWallOpts == 2
MaxLiquidTypes == 3
TileLookupLen == 419
WallLookupLen == 225

\* _clamp(uv, low, high)
Clamp(uv, low, high) ==
    IF low <= uv /\ uv <= high THEN uv
    ELSE IF uv < low THEN low
    ELSE high

\* elif type == IDs.Tile.Pots: the chain on tile.V
PotsOption(V) ==
    IF V < 144 THEN 0
    ELSE IF V < 252 THEN 1
    ELSE IF V < 360 \/ (900 < V /\ V < 1008) THEN 2
    ELSE IF V < 468 THEN 3
    ELSE IF V < 576 THEN 4
    ELSE IF V < 648 THEN 5
    ELSE IF V < 792 THEN 6
    ELSE IF V < 898 THEN 8
    ELSE IF V < 1006 THEN 7
    ELSE IF V < 1114 THEN 0
    ELSE IF V < 1222 THEN 3
    ELSE 7

\* elif type == IDs.Tile.SmallPiles: option stays 0 where no branch is taken
SmallPilesOption(U, V) ==
    LET Low(u) ==
            IF u < 6 \/ (28 <= u /\ u <= 32) THEN 0
            ELSE IF u < 22 \/ (33 <= u /\ u <= 35) THEN 1
            ELSE IF u < 28 THEN 2
            ELSE IF u < 48 THEN 3
            ELSE IF u < 54 THEN 4
            ELSE 0
        High(u) ==
            IF u < 6 \/ (19 <= u /\ u <= 24) \/ u = 33 \/ (38 <= u /\ u <= 40) THEN 0
            ELSE IF u < 16 THEN 2
            ELSE IF u < 19 \/ (31 <= u /\ u <= 32) THEN 1
            ELSE IF u < 31 THEN 3
            ELSE IF u < 38 THEN 4
            ELSE 0
    IN  IF V < 18 THEN Low(U \div 18) ELSE High(U \div 36)

\* elif type == IDs.Tile.LargePiles
LargePilesOption(U) ==
    LET Of(u) ==
            IF u < 7 THEN 2
            ELSE IF u < 22 \/ u \in {33, 34, 35} THEN 0
            ELSE IF u < 25 THEN 1
            ELSE IF u = 25 THEN 5
            ELSE IF u < 32 THEN 3
            ELSE 0
    IN  Of(U \div 54)

\* elif type == IDs.Tile.LargePiles2
LargePiles2Option(U) ==
    LET Of(u) ==
            IF u < 3 \/ u \in {14, 15, 16} THEN 0
            ELSE IF u < 6 THEN 6
            ELSE IF u < 9 THEN 7
            ELSE IF u < 14 THEN 4
            ELSE IF u < 18 THEN 4
            ELSE IF u < 23 THEN 8
            ELSE IF u < 25 THEN 0
            ELSE IF u < 29 THEN 1
            ELSE 0
    IN  Of(U \div 54)

\* elif type == IDs.Tile.Painting3X3
Painting3X3Option(U, V) ==
    LET Of(u) ==
            IF (0 <= u /\ u <= 11) \/ (47 <= u /\ u <= 53) THEN 0
            ELSE IF (12 <= u /\ u <= 15) \/ (18 <= u /\ u <= 35) THEN 1
            ELSE IF 16 <= u /\ u <= 17 THEN 2
            ELSE IF 41 <= u /\ u <= 45 THEN 3
            ELSE IF u = 46 THEN 4
            ELSE 0
    IN  Of(U \div 54 + (V \div 54) * 36)

\* elif type == IDs.Tile.Containers
ContainersOption(U) ==
    LET Of(u) ==
            IF u \in {1, 2, 10, 13, 15} THEN 1
            ELSE IF u \in {3, 4} THEN 2
            ELSE IF u = 6 THEN 3
            ELSE IF u \in {11, 17} THEN 4
            ELSE 0
    IN  Of(U \div 36)

\* elif type == IDs.Tile.Stalactite
StalactiteOption(U) ==
    IF U < 54 THEN 0
    ELSE IF U < 106 \/ U >= 216 THEN 1
    ELSE IF U >= 162 THEN 3
    ELSE 2

\* the if/elif chain on type of case 1 (Python 2 integers: "/" floors);
\* an argument left at its default None is <<>>, the value v is <<v>>
TileOption(tile, j) ==
    LET type == tile.Type
        T == IDsTile
    IN  IF type = T.DemonAltar THEN (IF tile.U >= 54 THEN 1 ELSE 0)
        ELSE IF type = T.Sunflower THEN (IF tile.U < 34 THEN 1 ELSE 0)
        ELSE IF type = T.Pots THEN PotsOption(tile.V)
        ELSE IF type = T.ShadowOrbs THEN (IF tile.U >= 36 THEN 1 ELSE 0)
        ELSE IF type = T.LongMoss THEN Clamp(tile.U \div 22, 0, 5)
        ELSE IF type = T.SmallPiles THEN SmallPilesOption(tile.U, tile.V)
        ELSE IF type = T.LargePiles THEN LargePilesOption(tile.U)
        ELSE IF type = T.LargePiles2 THEN LargePiles2Option(tile.U)
        ELSE IF type \in {T.ImmatureHerbs, T.MatureHerbs, T.BloomingHerbs}
             THEN Clamp(tile.U \div 18, 0, 6)
        ELSE IF type = T.AdamantiteForge THEN (IF tile.U >= 52 THEN 1 ELSE 0)
        ELSE IF type = T.MythrilAnvil THEN (IF tile.U >= 28 THEN 1 ELSE 0)
        ELSE IF type = T.PressurePlates THEN (IF tile.U # 0 THEN 1 ELSE 0)
        ELSE IF type = T.Painting3X3 THEN Painting3X3Option(tile.U, tile.V)
        ELSE IF type = T.Painting6X4
             THEN (IF 22 <= tile.V \div 72 /\ tile.V \div 72 <= 24 THEN 1 ELSE 0)
        ELSE IF type = T.Torches THEN 0
        ELSE IF type = T.Containers THEN ContainersOption(tile.U)
        ELSE IF type = T.Statues
             THEN (IF 1548 <= tile.U /\ tile.U <= 1654 THEN 1
                   ELSE IF 1656 <= tile.U /\ tile.U <= 1798 THEN 2 ELSE 0)
        ELSE IF type \in {T.HolidayLights, T.RainbowBrick}
             THEN (IF j # <<>> THEN j[1] % 3 ELSE 0)
        ELSE IF type = T.Stalactite THEN StalactiteOption(tile.U)
        ELSE IF type = T.ExposedGems THEN Clamp(tile.U \div 18, 0, 6)
        ELSE IF type = T.DyePlants THEN tile.U \div 34
        ELSE 0

\* a value returned by TileToLookup, or the exception it raised
Lookup(key, lookup, option) ==
    [exc |-> "none", value |-> <<key, lookup, option>>]

LookupRaised(e) ==
    [exc |-> e, value |-> NoValue]

\* case 1: "assert option < len(self.tileLookup[tile.Type])" and the return;
\* python -O compiles no assert statement
TileCase(m, tile, j) ==
    LET Checked(option) ==
            IF m.optimize THEN Lookup(LOOKUP_TILE, tile.Type, option)
            ELSE IF tile.Type >= TileLookupLen THEN LookupRaised("IndexError")
            ELSE IF ~(option < MaxTileOpts) THEN LookupRaised("AssertionError")
            ELSE Lookup(LOOKUP_TILE, tile.Type, option)
    IN  Checked(TileOption(tile, j))

\* case 3: walls
WallCase(tile, i) ==
    Lookup(LOOKUP_WALL, tile.Wall,
           IF tile.Wall = IDsWall.Planked /\ i # <<>> THEN i[1] % 2 ELSE 0)

\* case 4: inactive tiles with a gradient
GradientCase(m, j) ==
    IF j < m.groundLevel THEN Lookup(LOOKUP_SKY, 0, 0)
    ELSE IF j < m.rockLevel THEN Lookup(LOOKUP_DIRT, 0, 0)
    ELSE IF j < m.height - 204 THEN Lookup(LOOKUP_ROCK, 0, 0)
    ELSE Lookup(LOOKUP_ROCK, 1, 0)

\* the wall layer tested before the liquid layer
TileToLookupWallFirst(m, tile, i, j, t) ==
    IF tile.IsActive /\ tile.Type \notin m.missingTiles /\ ~t.tiles
    THEN TileCase(m, tile, j)
    ELSE IF tile.Wall # 0 /\ tile.Wall \notin m.missingWalls /\ ~t.walls
    THEN WallCase(tile, i)
    ELSE IF tile.LiquidType # 0 /\ tile.LiquidAmount > 32 /\ ~t.liquid
    THEN Lookup(LOOKUP_LIQUID, tile.LiquidType, 0)
    ELSE IF i # <<>> /\ j # <<>> /\ ~t.bg
    THEN GradientCase(m, j[1])
    ELSE Lookup(LOOKUP_NONE, 0, 0)

\* Map.TileToLookup(tile, i, j, transparentTiles, transparentWalls,
\* transparentLiquid, transparentBg) on the Map m
TileToLookup(m, tile, i, j, t) ==
    IF tile.IsActive /\ tile.Type \notin m.missingTiles /\ ~t.tiles
    THEN TileCase(m, tile, j)
    ELSE IF tile.LiquidType # 0 /\ tile.LiquidAmount > 32 /\ ~t.liquid
    THEN Lookup(LOOKUP_LIQUID, tile.LiquidType, 0)
    ELSE IF tile.Wall # 0 /\ tile.Wall \notin m.missingWalls /\ ~t.walls
    THEN WallCase(tile, i)
    ELSE IF i # <<>> /\ j # <<>> /\ ~t.bg
    THEN GradientCase(m, j[1])
    ELSE Lookup(LOOKUP_NONE, 0, 0)

\* Map.DoColorLookup(key, lookup, option): the index it takes of its table
\* (a Python list takes a negative index from its end); "none" or IndexError
DoColorLookup(key, lookup, option) ==
    LET At(index, len) ==
            IF -len <= index /\ index < len THEN "none" ELSE "IndexError"
    IN  IF key = LOOKUP_NONE THEN "none"
        ELSE IF key = LOOKUP_TILE
        THEN FirstRaised(<<At(lookup, TileLookupLen), At(option, MaxTileOpts)>>)
        ELSE IF key = LOOKUP_LIQUID THEN At(lookup, MaxLiquidTypes + 1)
        ELSE IF key = LOOKUP_WALL
        THEN FirstRaised(<<At(lookup, WallLookupLen), At(option, MaxWallOpts)>>)
        ELSE IF key \in {LOOKUP_SKY, LOOKUP_DIRT, LOOKUP_ROCK} THEN At(lookup, 2)
        ELSE "none"

(***************************************************************************)
(* The color mapper on its own: TileToLookup on one tile of a loaded map,  *)
(* then DoColorLookup on the descriptor it returned                        *)
(***************************************************************************)
\* frame coordinates on both sides of the thresholds of the option rules
FrameUs ==
    {-32768, -1, 0, 28, 34, 36, 52, 54, 106, 162, 216, 378, 408, 1188, 1350,
     1548, 1656, 1782, 1799, 32767}

FrameVs ==
    {-1, 0, 18, 54, 1584, 1800}

PotsVs ==
    {-32768, -1, 0, 143, 144, 251, 252, 359, 360, 467, 468, 575, 576, 647, 648,
     791, 792, 897, 898, 900, 901, 950, 1005, 1006, 1007, 1008, 1113, 1114,
     1221, 1222, 32767}

\* the types with an option rule, a type without one, the last type of the
\* table and types past its end
FrameTypes ==
    {IDsTile[n] : n \in DOMAIN IDsTile} \cup {1, TileLookupLen - 1, TileLookupLen, 700}

\* active tiles of every type with a rule, at every sample frame
FrameTiles ==
    {[NewTile EXCEPT !.IsActive = TRUE, !.Type = ty, !.U = u, !.V = v] :
        ty \in FrameTypes \ {IDsTile.Pots}, u \in FrameUs, v \in FrameVs}
    \cup {[NewTile EXCEPT !.IsActive = TRUE, !.Type = IDsTile.Pots, !.V = v] :
             v \in PotsVs}

\* tiles with every combination of layers: active or not (type 5 has no
\* color), liquid at and above the threshold, walls (wall 7 has no color)
LayerTiles ==
    {[NewTile EXCEPT !.IsActive = a[1], !.Type = a[2],
                     !.LiquidType = l[1], !.LiquidAmount = l[2], !.Wall = w] :
        a \in {<<FALSE, 0>>, <<TRUE, 1>>, <<TRUE, 5>>},
        l \in {<<0, 0>>, <<1, 32>>, <<1, 33>>, <<2, 0>>, <<3, 255>>},
        w \in {0, 1, 7, IDsWall.Planked, WallLookupLen - 1, 230}}

Transparency ==
    [tiles : BOOLEAN, walls : BOOLEAN, liquid : BOOLEAN, bg : BOOLEAN]

Opaque ==
    [tiles |-> FALSE, walls |-> FALSE, liquid |-> FALSE, bg |-> FALSE]

\* a Map after FromWorld: the levels and the height of the world, the types
\* no color was loaded for
LoadedMap(optimize) ==
    [missingTiles |-> {5}, missingWalls |-> {7}, groundLevel |-> 2,
     rockLevel |-> 4, height |-> 210, optimize |-> optimize]

InitColor ==
    /\ content = <<>>
    /\ pos = 0
    /\ exc = "none"
    /\ result = PyNone
    /\ call = [op |-> "__init__", pos0 |-> 0, arg |-> PyNone]
    /\ world = NoWorld
    /\ loc \in {LoadedMap(FALSE), LoadedMap(TRUE)}
    /\ pc = "tile"

\* m.TileToLookup(tile, i, j, ...)
LookingUp ==
    /\ pc = "tile"
    /\ \E a \in ({[tile |-> tile, i |-> <<0>>, j |-> j, t |-> Opaque] :
                     tile \in FrameTiles, j \in {<<>>, <<0>>, <<1>>, <<2>>}}
                 \cup {[tile |-> tile, i |-> i, j |-> j, t |-> t] :
                          tile \in LayerTiles, i \in {<<>>, <<0>>, <<3>>},
                          j \in {<<>>, <<1>>, <<3>>, <<5>>, <<6>>},
                          t \in Transparency}) :
       \E r \in {TileToLookup(loc, a.tile, a.i, a.j, a.t)} :
           /\ call' = [op |-> "TileToLookup", pos0 |-> 0, arg |-> a]
           /\ result' = r.value
           /\ exc' = r.exc
           /\ pc' = Goto("descriptor", r.exc)
    /\ UNCHANGED <<content, pos, world, loc>>

\* m.DoColorLookup(*descriptor)
ColorLooking ==
    /\ pc = "descriptor"
    /\ \E e \in {DoColorLookup(result[1], result[2], result[3])} :
           /\ call' = [op |-> "DoColorLookup", pos0 |-> 0, arg |-> call.arg]
           /\ exc' = e
           /\ pc' = Goto("color", e)
    /\ UNCHANGED <<content, pos, world, loc, result>>

NextColor ==
    \/ LookingUp
    \/ ColorLooking

SpecColor == InitColor /\ [][NextColor]_vars

(***************************************************************************)
(* Claims about the color mapper                                           *)
(***************************************************************************)
\* the call of TileToLookup the state is the outcome of, with a grid
\* position given
LookedUp ==
    /\ call.op = "TileToLookup"
    /\ call.arg.i # <<>>
    /\ call.arg.j # <<>>

\* C13: the descriptor TileToLookup returns is decided in this order:
\* an active tile with a color, tiles not transparent -> the tile table at
\* the tile's type; else a liquid with amount > 32, liquid not transparent
\* -> (Liquid, liquid type, 0); else a wall with a color, walls not
\* transparent -> (Wall, wall, i mod 2 for the planked wall, else 0); else,
\* background not transparent, (Sky, 0, 0) above the ground level,
\* (Dirt, 0, 0) above the rock level, (Rock, 0, 0) above height - 204,
\* (Rock, 1, 0) below; else (None, 0, 0).
C13_DecisionOrder ==
    (LookedUp /\ exc = "none") =>
        LET tile == call.arg.tile
            i == call.arg.i[1]
            j == call.arg.j[1]
            t == call.arg.t
        IN  IF tile.IsActive /\ tile.Type \notin loc.missingTiles /\ ~t.tiles
            THEN result[1] = LOOKUP_TILE /\ result[2] = tile.Type
            ELSE IF tile.LiquidType # 0 /\ tile.LiquidAmount > 32 /\ ~t.liquid
            THEN result = <<LOOKUP_LIQUID, tile.LiquidType, 0>>
            ELSE IF tile.Wall # 0 /\ tile.Wall \notin loc.missingWalls /\ ~t.walls
            THEN result = <<LOOKUP_WALL, tile.Wall,
                            IF tile.Wall = IDsWall.Planked THEN i % 2 ELSE 0>>
            ELSE IF ~t.bg
            THEN result = (IF j < loc.groundLevel THEN <<LOOKUP_SKY, 0, 0>>
                           ELSE IF j < loc.rockLevel THEN <<LOOKUP_DIRT, 0, 0>>
                           ELSE IF j < loc.height - 204 THEN <<LOOKUP_ROCK, 0, 0>>
                           ELSE <<LOOKUP_ROCK, 1, 0>>)
            ELSE result = <<LOOKUP_NONE, 0, 0>>

\* an inactive tile with water above the threshold in front of a wall that
\* has a color: the liquid is returned, not the wall
C13_WitnessLiquidOverWall ==
    /\ LookedUp
    /\ exc = "none"
    /\ ~call.arg.tile.IsActive
    /\ call.arg.tile.LiquidAmount = 33
    /\ call.arg.tile.Wall = 1
    /\ call.arg.t = Opaque
    /\ result = <<LOOKUP_LIQUID, 1, 0>>

\* a tile without a color and water at the threshold (32) over the planked
\* wall in an odd column: the wall with option 1
C13_WitnessPlanked ==
    /\ LookedUp
    /\ call.arg.tile.IsActive
    /\ call.arg.tile.Type = 5
    /\ call.arg.tile.LiquidAmount = 32
    /\ call.arg.i = <<3>>
    /\ result = <<LOOKUP_WALL, IDsWall.Planked, 1>>

\* C14: for every tile and every grid position TileToLookup returns a
\* descriptor inside its table: tile option in 0..11 and tile index < 419,
\* wall option in 0..1 and wall index < 225, liquid index in 1..3, gradient
\* index in 0..1.
C14_LookupTotality ==
    LookedUp =>
        /\ exc = "none"
        /\ result[1] \in {LOOKUP_NONE, LOOKUP_TILE, LOOKUP_LIQUID, LOOKUP_WALL,
                          LOOKUP_SKY, LOOKUP_DIRT, LOOKUP_ROCK}
        /\ result[1] = LOOKUP_TILE =>
              result[3] \in 0..11 /\ result[2] \in 0..418
        /\ result[1] = LOOKUP_WALL =>
              result[3] \in 0..1 /\ result[2] \in 0..224
        /\ result[1] = LOOKUP_LIQUID => result[2] \in 1..3
        /\ result[1] \in {LOOKUP_SKY, LOOKUP_DIRT, LOOKUP_ROCK} =>
              result[2] \in 0..1

\* the liquid and gradient descriptors, and every tile or wall descriptor
\* of a type inside the table whose option rule is not open-ended, are
\* inside their tables
C14_LookupInTable ==
    (/\ LookedUp
     /\ call.arg.tile.Type < TileLookupLen
     /\ call.arg.tile.Wall < WallLookupLen
     /\ call.arg.tile.Type # IDsTile.DyePlants) =>
        /\ exc = "none"
        /\ result[1] = LOOKUP_TILE =>
              result[3] \in 0..11 /\ result[2] \in 0..418
        /\ result[1] = LOOKUP_WALL =>
              result[3] \in 0..1 /\ result[2] \in 0..224
        /\ result[1] = LOOKUP_LIQUID => result[2] \in 1..3
        /\ result[1] \in {LOOKUP_SKY, LOOKUP_DIRT, LOOKUP_ROCK} =>
              result[2] \in 0..1

\* an active DyePlants tile whose frame was not read (U = -1): option -1
C14_WitnessNegativeOption ==
    /\ LookedUp
    /\ exc = "none"
    /\ call.arg.tile.Type = IDsTile.DyePlants
    /\ call.arg.tile.U = -1
    /\ result = <<LOOKUP_TILE, IDsTile.DyePlants, -1>>

\* an active DyePlants tile at U = 408: the assert on the option fails
C14_WitnessAssertion ==
    /\ LookedUp
    /\ call.arg.tile.Type = IDsTile.DyePlants
    /\ call.arg.tile.U = 408
    /\ exc = "AssertionError"

\* the step function on v with breakpoints 144, 252, 360, 468, 576, 648,
\* 792, 898, 1006, 1114, 1222 and values 0, 1, 2, 3, 4, 5, 6, 8, 7, 0, 3, 7
PotsOptionSteps(V) ==
    IF V < 144 THEN 0
    ELSE IF V < 252 THEN 1
    ELSE IF V < 360 THEN 2
    ELSE IF V < 468 THEN 3
    ELSE IF V < 576 THEN 4
    ELSE IF V < 648 THEN 5
    ELSE IF V < 792 THEN 6
    ELSE IF V < 898 THEN 8
    ELSE IF V < 1006 THEN 7
    ELSE IF V < 1114 THEN 0
    ELSE IF V < 1222 THEN 3
    ELSE 7

\* an active Pots tile was looked up and the tile case returned
PotsLookedUp ==
    /\ call.op = "TileToLookup"
    /\ exc = "none"
    /\ call.arg.tile.IsActive
    /\ call.arg.tile.Type = IDsTile.Pots
    /\ result[1] = LOOKUP_TILE

\* C15: the option of an active Pots tile is the step function of v with
\* breakpoints 144, 252, 360, 468, 576, 648, 792, 898, 1006, 1114, 1222
\* and values 0, 1, 2, 3, 4, 5, 6, 8, 7, 0, 3, 7, for every v.
C15_PotsOptionRule ==
    PotsLookedUp => result[3] = PotsOptionSteps(call.arg.tile.V)

\* outside 901..1007 the option is the step function
C15_PotsOptionOutsideBand ==
    (PotsLookedUp /\ ~(900 < call.arg.tile.V /\ call.arg.tile.V < 1008))
        => result[3] = PotsOptionSteps(call.arg.tile.V)

\* v = 950 lies in the interval 898..1005 of the step function (option 7)
\* and the lookup returns option 2
C15_WitnessBand ==
    /\ PotsLookedUp
    /\ call.arg.tile.V = 950
    /\ result[3] = 2

(***************************************************************************)
(* MapFile.py: Map.LoadMapTiles on the decompressed tile data              *)
(***************************************************************************)
\* "(header1 & 14) >> 3": the section taken three bits up
MapSectionShift3(header1) ==
    ShiftRight(BitAnd(header1, 14), 3)

\* section = (header1 & 14) >> 1
MapSection(header1) ==
    ShiftRight(BitAnd(header1, 14), 1)

MapCellEntry(p) ==
    [pos |-> p, exc |-> "none", value |-> 0, log |-> <<>>,
     header1 |-> 0, header2 |-> 0, section |-> 0, tileIdx |-> 0,
     light |-> 255, rle |-> 0]

\* header1 = stream.readByte()
ReadCellHeader1(c, a) ==
    LET Set(s) == [s EXCEPT !.header1 = s.value, !.section = MapSection(s.value)]
    IN  Set(StreamRead("header1", ByteType, c, a))

\* header2 = stream.readByte() if (header1 & 1) == 1 else 0
ReadCellHeader2(c, a) ==
    IF BitAnd(a.header1, 1) = 1
    THEN LET Set(s) == [s EXCEPT !.header2 = s.value]
         IN  Set(StreamRead("header2", ByteType, c, a))
    ELSE a

\* hasOwnType = (section in (1, 2, 7)); tileIdx by the width bit 16 names
ReadTileIdx(c, a) ==
    LET Set(s) == [s EXCEPT !.tileIdx = s.value]
    IN  IF a.section \in {1, 2, 7}
        THEN IF BitAnd(a.header1, 16) # 16
             THEN Set(StreamRead("tileIdx", ByteType, c, a))
             ELSE Set(StreamRead("tileIdx", UInt16Type, c, a))
        ELSE a

\* light = 255 if (header1 & 32) != 32 else stream.readByte()
ReadLight(c, a) ==
    IF BitAnd(a.header1, 32) # 32 THEN a
    ELSE LET Set(s) == [s EXCEPT !.light = s.value]
         IN  Set(StreamRead("light", ByteType, c, a))

\* rleType = ((header1 & 192) >> 6); rle by its width, 0 for types 0 and 3
ReadCellRLE(c, a) ==
    LET Set(s) == [s EXCEPT !.rle = s.value]
        Run(rleType) ==
            IF rleType = 1 THEN Set(StreamRead("rle", ByteType, c, a))
            ELSE IF rleType = 2 THEN Set(StreamRead("rle", SInt16Type, c, a))
            ELSE a
    IN  Run(ShiftRight(BitAnd(a.header1, 192), 6))

\* the header of one cell, from header1 to rle
MapCell(c, p) ==
    ReadCellRLE(c, ReadLight(c, ReadTileIdx(c, ReadCellHeader2(c,
        ReadCellHeader1(c, MapCellEntry(p))))))

\* self.rawset(x, y, tile): _raw_tiles[(x, y)] = tile
RawSet(raw, x, y, tile) ==
    {e \in raw : ~(e.x = x /\ e.y = y)} \cup {[x |-> x, y |-> y, tile |-> tile]}

\* the tuple rawset is given
RawTile(a, rle) ==
    <<a.header1, a.header2, a.tileIdx, a.light, rle, a.section>>

\* "while rle > 0: x += 1; tile[1] = stream.readByte(); rawset; rle -= 1"
\* (light is a byte: the branch "light == 256" is never taken)
RECURSIVE LightRun(_, _, _, _)
LightRun(rle, cell, c, a) ==
    IF rle <= 0 \/ a.exc # "none" THEN a
    ELSE LET Lit(r) ==
                 IF r.exc # "none" THEN [a EXCEPT !.exc = r.exc, !.x = a.x + 1]
                 ELSE LightRun(rle - 1, cell, c,
                          [a EXCEPT !.x = a.x + 1, !.pos = r.pos,
                                    !.raw = RawSet(a.raw, a.x + 1, a.y,
                                                   RawTile(cell, rle))])
         IN  Lit(readByte(c, a.pos))

\* the two loops from the test of the inner one: the next cell, or the end
\* (x is not set back to 0 for a new row)
RECURSIVE MapLoop(_, _, _, _)
MapLoop(x, y, width, height) ==
    IF y < height
    THEN IF x < width
         THEN [more |-> TRUE, x |-> x, y |-> y]
         ELSE MapLoop(x, y + 1, width, height)
    ELSE [more |-> FALSE, x |-> x, y |-> y]

(***************************************************************************)
(* LoadMapTiles as a sequence of cells                                     *)
(***************************************************************************)
MapTails ==
    { <<>>,
      <<5>>,
      <<7, 1, 0, 9, 2, 200>>,
      <<0, 0, 0, 0, 0, 0>>,
      <<0, 0, 0, 0, 0>>,
      <<255, 255, 255, 255>>,
      <<254, 255, 3, 4>>,
      <<2, 3, 2, 9, 9, 9, 0>> }

MapBuffers ==
    {<<h>> \o t : h \in 0..255, t \in MapTails}

InitMap ==
    /\ content \in MapBuffers
    /\ pos = 0
    /\ exc = "none"
    /\ result = PyNone
    /\ call = [op |-> "__init__", pos0 |-> 0, arg |-> PyNone]
    /\ world = NoWorld
    /\ loc \in {[x |-> 0, y |-> 0, width |-> 3, height |-> 2, raw |-> {},
                 optimize |-> o] : o \in BOOLEAN}
    /\ pc = "cell"

\* one pass of the inner loop of LoadMapTiles: "assert x >= 0", the cell
\* header, the run, "x += 1" and the loop tests up to the next cell
LoadingMapCell ==
    /\ pc = "cell"
    /\ \E cell \in {MapCell(content, pos)} :
       \E run \in {IF cell.exc # "none"
                   THEN [exc |-> cell.exc, pos |-> cell.pos, x |-> loc.x,
                         y |-> loc.y, raw |-> loc.raw]
                   ELSE IF cell.section = 0
                   THEN [exc |-> "none", pos |-> cell.pos, x |-> loc.x + cell.rle,
                         y |-> loc.y,
                         raw |-> RawSet(loc.raw, loc.x, loc.y, RawTile(cell, cell.rle))]
                   ELSE LightRun(cell.rle, cell, content,
                            [exc |-> "none", pos |-> cell.pos, x |-> loc.x,
                             y |-> loc.y,
                             raw |-> RawSet(loc.raw, loc.x, loc.y,
                                            RawTile(cell, cell.rle))])} :
       \E at \in {MapLoop(run.x + 1, run.y, loc.width, loc.height)} :
       \E e \in {IF ~loc.optimize /\ ~(loc.x >= 0) THEN "AssertionError"
                 ELSE run.exc} :
           /\ call' = [op |-> "LoadMapTiles", pos0 |-> pos, arg |-> <<loc.x, loc.y>>]
           /\ IF e = "AssertionError"
              THEN /\ result' = NoValue
                   /\ UNCHANGED <<pos, loc>>
              ELSE /\ result' = [parsed |-> cell.exc = "none", section |-> cell.section,
                                 tileIdx |-> cell.tileIdx, light |-> cell.light,
                                 rle |-> cell.rle, log |-> cell.log]
                   /\ pos' = run.pos
                   /\ loc' = IF e = "none"
                             THEN [loc EXCEPT !.x = at.x, !.y = at.y, !.raw = run.raw]
                             ELSE [loc EXCEPT !.x = run.x, !.raw = run.raw]
           /\ exc' = e
           /\ pc' = IF e # "none" THEN "raised"
                    ELSE IF at.more THEN "cell" ELSE "done"
    /\ UNCHANGED <<content, world>>

NextMap ==
    LoadingMapCell

SpecMap == InitMap /\ [][NextMap]_vars

(***************************************************************************)
(* Claims about LoadMapTiles                                               *)
(***************************************************************************)
\* the header of a cell was parsed to its end
CellParsed ==
    /\ call.op = "LoadMapTiles"
    /\ exc # "AssertionError"
    /\ result.parsed

\* C16: the section of a map cell is bits 1-3 of its first header byte, a
\* value in 0..7; an explicit type index is read iff the section is 1, 2 or
\* 7, of one byte, or of two bytes when bit 4 of the header is set; for
\* every other section no type byte is consumed.
C16_MapCellHeader ==
    CellParsed =>
        LET h == content[call.pos0 + 1]
            section == (h \div 2) % 8
            typed == \E k \in 1..Len(result.log) : result.log[k][1] = "tileIdx"
        IN  /\ result.section = section
            /\ result.section \in 0..7
            /\ typed <=> section \in {1, 2, 7}
            /\ \A k \in 1..Len(result.log) :
                  result.log[k][1] = "tileIdx" =>
                     result.log[k][2] = (IF (h \div 16) % 2 = 1 THEN 2 ELSE 1)
            /\ ~typed => result.tileIdx = 0

\* a background cell (section 7) with a 16-bit type index
C16_WitnessBackground ==
    /\ CellParsed
    /\ content[call.pos0 + 1] = 30
    /\ result.section = 7
    /\ result.tileIdx = 7 + 256
    /\ result.log = << <<"header1", 1>>, <<"tileIdx", 2>> >>

\* a water cell (section 3): no type byte although bit 4 is set
C16_WitnessWater ==
    /\ CellParsed
    /\ content[call.pos0 + 1] = 22
    /\ result.section = 3
    /\ result.log = << <<"header1", 1>> >>

(***************************************************************************)
(* World.LoadNPCs on its own: an NPC section of n NPC records and m mob    *)
(* records, whole or cut short, read under a header of version 139 or 140  *)
(***************************************************************************)
MaxNPCs == 2

\* the section as version 140 writes it: NPC records, their terminator, mob
\* records, their terminator
NPCSection(n, m) ==
    EmitNPCs([npcs |-> n, mobs |-> m, version |-> Version140])

\* the section up to the terminator of the NPC records
NPCPart(n) ==
    EmitNPCs([npcs |-> n, mobs |-> 0, version |-> Version140 - 1])

InitNPCs ==
    /\ \E n \in 0..MaxNPCs, m \in 0..MaxNPCs, v \in {Version140 - 1, Version140} :
       \E k \in 0..Len(NPCSection(n, m)) :
           /\ content = SubSeq(NPCSection(n, m), 1, k)
           /\ loc = [npcs |-> n, mobs |-> m, full |-> Len(NPCSection(n, m)),
                     npcsEnd |-> Len(NPCPart(n))]
           /\ world = [World(TRUE, FALSE, FALSE, FALSE, TRUE, FALSE) EXCEPT
                          !.header = <<[WorldFileHeader EXCEPT
                                           !.Version = v,
                                           !.SectionPointers[SECTION_NPCS + 1] = 0]>>]
    /\ pos = 0
    /\ exc = "none"
    /\ result = PyNone
    /\ call = [op |-> "__init__", pos0 |-> 0, arg |-> <<>>]
    /\ pc = "npcs"

\* w.LoadNPCs()
LoadingNPCSection ==
    /\ pc = "npcs"
    /\ \E r \in {LoadNPCs(world.header[1], content, pos)} :
           /\ pos' = r.pos
           /\ exc' = r.exc
           /\ pc' = Goto("loaded", r.exc)
           /\ world' = [world EXCEPT
                            !.npcs = IF r.npcs = <<>> THEN @ ELSE r.npcs,
                            !.mobs = IF r.exc = "none" THEN <<r.list>> ELSE @]
           /\ call' = [op |-> "LoadNPCs", pos0 |-> pos, arg |-> <<>>]
    /\ result' = PyNone
    /\ UNCHANGED <<content, loc>>

NextNPCs ==
    LoadingNPCSection

SpecNPCs == InitNPCs /\ [][NextNPCs]_vars

(***************************************************************************)
(* Claims about World.LoadNPCs                                             *)
(***************************************************************************)
\* the bytes LoadNPCs needs: the mob records only from version 140
NPCBytesRead ==
    IF world.header[1].Version >= Version140 THEN loc.full ELSE loc.npcsEnd

\* C17: LoadNPCs reads one NPC record per true prefix up to the first false
\* prefix, then one mob record per true prefix up to a false prefix only
\* when the version is at least 140 (below 140 it consumes nothing after
\* the NPC terminator); on every buffer it ends, at a false prefix or with
\* an end-of-file error.
C17_NPCProtocol ==
    call.op = "LoadNPCs" =>
        /\ exc \in {"none", "struct.error", "EOFError"}
        /\ exc = "none" <=> Len(content) >= NPCBytesRead
        /\ exc = "none" =>
              /\ pos = NPCBytesRead
              /\ Len(world.npcs[1]) = loc.npcs
              /\ \A k \in 1..loc.npcs : world.npcs[1][k].Name = <<78, 48 + k>>
              /\ Len(world.mobs[1]) =
                    (IF world.header[1].Version >= Version140 THEN loc.mobs ELSE 0)
              /\ \A k \in 1..Len(world.mobs[1]) :
                    world.mobs[1][k].Name = <<77, 48 + k>>
        /\ world.npcs # <<>> => Len(world.npcs[1]) = loc.npcs

\* version 139, two NPC records followed by bytes of mob records: the
\* load ends on the NPC terminator and reads no mob
C17_WitnessNoMobs ==
    /\ call.op = "LoadNPCs"
    /\ exc = "none"
    /\ world.header[1].Version = Version140 - 1
    /\ loc.npcs = 2
    /\ Len(content) = loc.full
    /\ loc.full > loc.npcsEnd
    /\ pos = loc.npcsEnd
    /\ world.mobs = << <<>> >>

\* version 140, the section cut inside the second mob record
C17_WitnessCut ==
    /\ call.op = "LoadNPCs"
    /\ exc \in {"struct.error", "EOFError"}
    /\ world.header[1].Version = Version140
    /\ loc.mobs = 2
    /\ Len(content) = loc.full - 3
    /\ Len(world.npcs[1]) = loc.npcs

(***************************************************************************)
(* BinaryStream.py: the older reader, its positioning and its byte read    *)
(***************************************************************************)
\* content[a:b] of a Python string: a negative index counts from the end,
\* an index past either end is the end
PySlice(c, a, b) ==
    LET At(i) == IF i < 0 THEN (IF i + Len(c) < 0 THEN 0 ELSE i + Len(c))
                 ELSE IF i > Len(c) THEN Len(c) ELSE i
    IN  SubSeq(c, At(a) + 1, At(b))

\* BinaryStream.seek(nbytes): self._pos += nbytes
StreamSeek(nbytes, c, p) == p + nbytes

\* BinaryStream.seek_set(pos): self._pos = pos
StreamSeekSet(nbytes, c, p) == nbytes

\* BinaryStream.seek_end(nbytes): self._pos = len(self._content) - nbytes
StreamSeekEnd(nbytes, c, p) == Len(c) - nbytes

\* BinaryStream._next(1) under readUInt8: the slice, "self._pos += nbytes",
\* then result[0] of a slice that may be empty
StreamReadUInt8(c, p) ==
    LET Got(bs) ==
            IF bs = <<>>
            THEN [exc |-> "IndexError", value |-> NoValue, pos |-> p + 1]
            ELSE [exc |-> "none", value |-> bs[1], pos |-> p + 1]
    IN  Got(PySlice(c, p, p + 1))

InitStream ==
    /\ content \in SeqsUpTo(Alphabet, MaxLen)
    /\ pos = 0
    /\ exc = "none"
    /\ result = PyNone
    /\ call = [op |-> "__init__", arg |-> 0, pos0 |-> 0]
    /\ world = NoWorld
    /\ loc = <<>>
    /\ pc = "stream"

\* the positions the model follows the stream to
StreamPositions ==
    (0 - 2 * MaxSeek)..(MaxLen + 2 * MaxSeek)

StreamReturns(op, arg, p) ==
    /\ p \in StreamPositions
    /\ call' = [op |-> op, arg |-> arg, pos0 |-> pos]
    /\ pos' = p
    /\ UNCHANGED <<content, world, loc, pc>>

SeekingStream ==
    \E nbytes \in (0 - MaxSeek)..MaxSeek :
        /\ StreamReturns("seek", nbytes, StreamSeek(nbytes, content, pos))
        /\ exc' = "none"
        /\ result' = PyNone

SeekingStreamSet ==
    \E nbytes \in (0 - MaxSeek)..(MaxLen + MaxSeek) :
        /\ StreamReturns("seek_set", nbytes, StreamSeekSet(nbytes, content, pos))
        /\ exc' = "none"
        /\ result' = PyNone

SeekingStreamEnd ==
    \E nbytes \in (0 - MaxSeek)..MaxSeek :
        /\ StreamReturns("seek_end", nbytes, StreamSeekEnd(nbytes, content, pos))
        /\ exc' = "none"
        /\ result' = PyNone

ReadingStream ==
    \E r \in {StreamReadUInt8(content, pos)} :
        /\ StreamReturns("readUInt8", 0, r.pos)
        /\ exc' = r.exc
        /\ result' = IF r.exc = "none" THEN <<r.value>> ELSE NoValue

NextStream ==
    \/ SeekingStream
    \/ SeekingStreamSet
    \/ SeekingStreamEnd
    \/ ReadingStream

SpecStream == InitStream /\ [][NextStream]_vars

(***************************************************************************)
(* Claims about positioning                                                *)
(***************************************************************************)
\* C18: after any seek_set(pos), seek_cur(delta) or seek_end(delta) the
\* position of the reader lies in 0..len(buf): a target below 0 becomes 0,
\* a target above len(buf) becomes len(buf).
C18_SeekClamped ==
    call.op \in {"seek", "seek_set", "seek_end"} =>
        0 <= pos /\ pos <= Len(content)

\* BinaryString: every seek leaves the position in 0..len(buf), at the
\* clamped target
C18_StringSeekClamped ==
    call.op = "seek" =>
        LET target == CASE call.arg[2] = "SEEK_CUR" -> call.pos0 + call.arg[1]
                        [] call.arg[2] = "SEEK_SET" -> call.arg[1]
                        [] call.arg[2] = "SEEK_END" -> Len(content) + call.arg[1]
        IN  /\ 0 <= pos /\ pos <= Len(content)
            /\ pos = (IF target < 0 THEN 0
                      ELSE IF target > Len(content) THEN Len(content)
                      ELSE target)

\* BinaryStream.seek_set(-1) leaves the position at -1
C18_WitnessNegative ==
    /\ call.op = "seek_set"
    /\ call.arg = -1
    /\ pos = -1

\* BinaryStream.seek_end(-2) leaves the position two past the end
C18_WitnessPastEnd ==
    /\ call.op = "seek_end"
    /\ call.arg = -2
    /\ pos = Len(content) + 2

(***************************************************************************)
(* Claims about the reader's failures                                      *)
(***************************************************************************)
\* the byte a readBoolean call found at its position
BooleanByte == content[call.pos0 + 1]

BooleanRead ==
    /\ call.op = "readBoolean"
    /\ call.pos0 < Len(content)

\* C19: readBoolean reads one byte and returns false for 0 and true for 1;
\* for every other byte value (2..255) it fails with an out-of-range data
\* error instead of returning a value.
C19_BooleanRangeCheck ==
    BooleanRead =>
        /\ pos = call.pos0 + 1
        /\ CASE BooleanByte = 0 -> exc = "none" /\ result = 0
             [] BooleanByte = 1 -> exc = "none" /\ result = 1
             [] OTHER -> exc = "DataError"

\* what the reader does: false for 0, true for every other byte, never a
\* data error
C19_BooleanNonZero ==
    /\ BooleanRead =>
           /\ pos = call.pos0 + 1
           /\ exc = "none"
           /\ result = (IF BooleanByte = 0 THEN 0 ELSE 1)
    /\ call.op = "readBoolean" => exc # "DataError"

\* the byte 255 read as true
C19_WitnessByte255 ==
    /\ BooleanRead
    /\ BooleanByte = 255
    /\ exc = "none"
    /\ result = 1

\* the byte 1 read as true
C19_WitnessByte1 ==
    /\ BooleanRead
    /\ BooleanByte = 1
    /\ exc = "none"
    /\ result = 1

\* the number of consecutive bytes with the high bit set from position p
RECURSIVE ContinuationRun(_, _)
ContinuationRun(c, p) ==
    IF p < Len(c) /\ c[p + 1] >= 128 THEN 1 + ContinuationRun(c, p + 1) ELSE 0

Packed7Read ==
    /\ call.op = "readPacked7Int"
    /\ call.pos0 < Len(content)

\* C20: readPacked7Int fails with a VarintOverflow error when the encoded
\* integer has more than 10 continuation bytes, rather than continuing to
\* accumulate bits.
C20_VarintOverflow ==
    (Packed7Read /\ ContinuationRun(content, call.pos0) > 10) =>
        exc = "VarintOverflow"

\* what the reader does: it follows the high bits to the first byte without
\* one, however many there are, and fails only at the end of the buffer
C20_VarintNoLimit ==
    Packed7Read =>
        LET Run(n) ==
                IF call.pos0 + n < Len(content)
                THEN exc = "none" /\ pos = call.pos0 + n + 1
                ELSE exc = "struct.error" /\ pos = Len(content)
        IN  Run(ContinuationRun(content, call.pos0))

\* eleven bytes with the high bit set and a closing byte decoded as 1
C20_WitnessEleven ==
    /\ Packed7Read
    /\ ContinuationRun(content, call.pos0) = 11
    /\ exc = "none"
    /\ result = 1
    /\ pos = call.pos0 + 12

\* ten bytes with the high bit set and a closing byte decoded as 1
C20_WitnessTen ==
    /\ Packed7Read
    /\ ContinuationRun(content, call.pos0) = 10
    /\ exc = "none"
    /\ result = 1
    /\ pos = call.pos0 + 11

\* a readBitArray() call without a count that found both bytes of its
\* prefix, the second with the high bit set
HighPrefixRead ==
    /\ call.op = "readBitArray"
    /\ call.arg = -1
    /\ call.pos0 + 2 <= Len(content)
    /\ content[call.pos0 + 2] >= 128

\* the prefix of that call as an unsigned 16-bit number
UnsignedPrefix == content[call.pos0 + 1] + 256 * content[call.pos0 + 2]

\* C21: when readBitArray is called without a count, a 16-bit prefix with
\* its high bit set (0x8000..0xffff) is the unsigned bit count 32768..65535,
\* and that many bits are read: the call returns only with that many bits
\* and the position past their bytes.
C21_BitArrayUnsignedPrefix ==
    (HighPrefixRead /\ exc = "none") =>
        /\ Len(result) = UnsignedPrefix
        /\ pos = call.pos0 + 2 + ((UnsignedPrefix + 7) \div 8)

\* what the reader does: the prefix is a signed count, a negative count
\* reads no bits, and the call returns the empty list after the prefix
C21_BitArraySignedPrefix ==
    HighPrefixRead =>
        /\ exc = "none"
        /\ result = <<>>
        /\ pos = call.pos0 + 2

\* the prefix ff ff read as -1: no bits, two bytes consumed
C21_WitnessMinusOne ==
    /\ HighPrefixRead
    /\ UnsignedPrefix = 65535
    /\ exc = "none"
    /\ result = <<>>
    /\ pos = call.pos0 + 2

(***************************************************************************)
(* Claims about a load that fails                                          *)
(***************************************************************************)
\* World.Load ended with an exception
LoadFailed ==
    /\ pc = "raised"
    /\ call.op # "GetTile"

\* the World object shows nothing decoded
NothingDecoded ==
    /\ world.header = <<>>
    /\ world.flags = <<>>
    /\ world.tiles = <<>>
    /\ world.chests = <<>>
    /\ world.signs = <<>>
    /\ world.npcs = <<>>
    /\ world.mobs = <<>>
    /\ world.tents = <<>>
    /\ world.footer = <<>>
    /\ ~world.loaded

\* C22: a World.Load that fails at any point (header, flags, tiles, chests,
\* signs, NPCs, tile entities or footer) leaves no partially decoded state
\* observable on the World object: no decoded header, flags or sections.
C22_NoPartialResults ==
    LoadFailed => NothingDecoded

\* what the loader does: each section is assigned when its own step ends, so
\* a failed load shows every section decoded before the failure; only a
\* failure inside LoadHeader shows nothing
C22_FailureKeepsPrefix ==
    LoadFailed =>
        /\ world.header = <<>> => NothingDecoded
        /\ world.flags = <<>> =>
               /\ world.tiles = <<>>
               /\ world.chests = <<>>
               /\ world.signs = <<>>
               /\ world.footer = <<>>
        /\ world.footer = <<>>

\* a load that failed after the header, the flags and the tiles were
\* assigned
C22_WitnessPartial ==
    /\ LoadFailed
    /\ world.header # <<>>
    /\ world.flags # <<>>
    /\ world.tiles # <<>>
    /\ world.footer = <<>>

\* a load that failed inside LoadHeader
C22_WitnessHeader ==
    /\ LoadFailed
    /\ NothingDecoded

(***************************************************************************)
(* Claims about the tile counts                                            *)
(***************************************************************************)
\* LoadTiles has just ended on a section that filled the grid and ended at
\* the chests pointer
TilesWellFormed ==
    /\ call.op \in {"LoadTiles", "Tile.FromStream"}
    /\ pc = "chests"
    /\ world.tiles # <<>>
    /\ world.warnings = <<>>
    /\ \A i \in DOMAIN world.tiles[1] : world.tiles[1][i] # 0

\* the Tile object of cell i of the loaded grid
GridTile(i) == world.heap[world.tiles[1][i]]

ActiveCells(t) ==
    {i \in DOMAIN world.tiles[1] : GridTile(i).IsActive /\ GridTile(i).Type = t}

WallCells(w) ==
    {i \in DOMAIN world.tiles[1] : GridTile(i).Wall = w}

GridTypes == {GridTile(i).Type : i \in DOMAIN world.tiles[1]} \cup DOMAIN world.tile_counts

GridWalls ==
    ({GridTile(i).Wall : i \in DOMAIN world.tiles[1]} \cup DOMAIN world.wall_counts) \ {0}

\* C23: after World.LoadTiles on a well-formed tile section, GetTileCount(t)
\* is the number of grid cells holding an active tile of type t, and
\* GetWallCount(w) the number of grid cells whose wall is w (w != 0), for
\* every sequence of tile records and RLE counts.
C23_TileCounts ==
    TilesWellFormed =>
        /\ \A t \in GridTypes :
               GetTileCount(world.tile_counts, t) = Cardinality(ActiveCells(t))
        /\ \A w \in GridWalls :
               GetTileCount(world.wall_counts, w) = Cardinality(WallCells(w))

\* what the loader does: a record adds max(rle, 1) while it fills rle + 1
\* cells, so a count never exceeds the cells and counts every type present
C23_CountsWithinCells ==
    TilesWellFormed =>
        /\ \A t \in GridTypes :
               /\ GetTileCount(world.tile_counts, t) <= Cardinality(ActiveCells(t))
               /\ ActiveCells(t) # {} => GetTileCount(world.tile_counts, t) > 0
        /\ \A w \in GridWalls :
               /\ GetTileCount(world.wall_counts, w) <= Cardinality(WallCells(w))
               /\ WallCells(w) # {} => GetTileCount(world.wall_counts, w) > 0

\* a well-formed section with a run: a type counted below its cells
C23_WitnessRun ==
    /\ TilesWellFormed
    /\ \E t \in GridTypes :
           /\ GetTileCount(world.tile_counts, t) > 0
           /\ GetTileCount(world.tile_counts, t) < Cardinality(ActiveCells(t))

\* a well-formed section of single records: every count is its cells
C23_WitnessSingles ==
    /\ TilesWellFormed
    /\ GridTypes # {}
    /\ \A t \in GridTypes :
           GetTileCount(world.tile_counts, t) = Cardinality(ActiveCells(t))
    /\ \A w \in GridWalls :
           GetTileCount(world.wall_counts, w) = Cardinality(WallCells(w))

(***************************************************************************)
(* Match.py: match expressions                                             *)
(***************************************************************************)
\* An expression is a sequence of lexemes: the separators, the decimal
\* digits, and words without a separator or a digit in them.
EXPR_MAX_TERMS == 4
TOK_EXPRSEP == ";"
TOK_TERMSEP == ","
TOK_RANGE == "-"
TOK_NONE == <<"None">>

Digits == <<"0", "1", "2", "3", "4", "5", "6", "7", "8", "9">>

DigitValue(d) == (CHOOSE i \in DOMAIN Digits : Digits[i] = d) - 1

IsDigit(d) == \E i \in DOMAIN Digits : Digits[i] = d

\* str.split(sep): the pieces between the separators, at least one
RECURSIVE Split(_, _)
Split(s, sep) ==
    IF \A i \in DOMAIN s : s[i] # sep THEN <<s>>
    ELSE LET i == CHOOSE j \in DOMAIN s :
                      s[j] = sep /\ \A k \in 1..(j - 1) : s[k] # sep
         IN  <<SubSeq(s, 1, i - 1)>> \o Split(SubSeq(s, i + 1, Len(s)), sep)

\* the digits of num read in the given base, high digit first
RECURSIVE DigitsValue(_, _)
DigitsValue(num, base) ==
    IF num = <<>> THEN 0
    ELSE DigitsValue(SubSeq(num, 1, Len(num) - 1), base) * base
           + DigitValue(num[Len(num)])

\* int(num, 0) on a string of digits and words (Python 2): decimal, or
\* octal after a leading "0"; ValueError otherwise
IntBase0(num) ==
    IF num = <<>> \/ \E i \in DOMAIN num : ~IsDigit(num[i])
    THEN [exc |-> "ValueError", value |-> 0]
    ELSE IF Len(num) > 1 /\ num[1] = "0"
    THEN IF \E i \in DOMAIN num : DigitValue(num[i]) >= 8
         THEN [exc |-> "ValueError", value |-> 0]
         ELSE [exc |-> "none", value |-> DigitsValue(num, 8)]
    ELSE [exc |-> "none", value |-> DigitsValue(num, 10)]

\* Match._parse_num: a key of names is a single word
ParseNum(num, names) ==
    IF Len(num) = 1 /\ num[1] \in DOMAIN names
    THEN [exc |-> "none", value |-> names[num[1]]]
    ELSE LET Tried(r) ==
                 IF r.exc = "ValueError"
                 THEN [exc |-> "MatchSyntaxError", value |-> 0]
                 ELSE r
         IN  Tried(IntBase0(num))

\* range(a, b)
Range(a, b) ==
    IF b > a THEN [i \in 1..(b - a) |-> a + i - 1] ELSE <<>>

\* _parse_range with range(a, b): the upper end left out
ParseRangeExclusive(r, names) ==
    LET Of(nums) ==
            IF Len(nums) = 1
            THEN LET One(a) ==
                         IF a.exc # "none" THEN [exc |-> a.exc, value |-> <<>>]
                         ELSE [exc |-> "none", value |-> <<a.value>>]
                 IN  One(ParseNum(nums[1], names))
            ELSE IF Len(nums) = 2
            THEN LET Two(a, b) ==
                         IF a.exc # "none" THEN [exc |-> a.exc, value |-> <<>>]
                         ELSE IF b.exc # "none" THEN [exc |-> b.exc, value |-> <<>>]
                         ELSE [exc |-> "none", value |-> Range(a.value, b.value)]
                 IN  Two(ParseNum(nums[1], names), ParseNum(nums[2], names))
            ELSE [exc |-> "MatchSyntaxError", value |-> <<>>]
    IN  Of(Split(r, TOK_RANGE))

\* Match._parse_range: [exc, value], value the list of the term
ParseRange(r, names) ==
    LET Of(nums) ==
            IF Len(nums) = 1
            THEN LET One(a) ==
                         IF a.exc # "none" THEN [exc |-> a.exc, value |-> <<>>]
                         ELSE [exc |-> "none", value |-> <<a.value>>]
                 IN  One(ParseNum(nums[1], names))
            ELSE IF Len(nums) = 2
            THEN LET Two(a, b) ==
                         IF a.exc # "none" THEN [exc |-> a.exc, value |-> <<>>]
                         ELSE IF b.exc # "none" THEN [exc |-> b.exc, value |-> <<>>]
                         ELSE [exc |-> "none", value |-> Range(a.value, b.value + 1)]
                 IN  Two(ParseNum(nums[1], names), ParseNum(nums[2], names))
            ELSE [exc |-> "MatchSyntaxError", value |-> <<>>]
    IN  Of(Split(r, TOK_RANGE))

\* sum([list(self._parse_range(t)) for t in terms], []) from term k on
RECURSIVE ParseTerms(_, _, _)
ParseTerms(terms, k, names) ==
    IF k > Len(terms) THEN [exc |-> "none", value |-> <<>>]
    ELSE LET Rest(t) ==
                 IF t.exc # "none" THEN t
                 ELSE LET Sum(r) ==
                              IF r.exc # "none" THEN r
                              ELSE [exc |-> "none", value |-> t.value \o r.value]
                      IN  Sum(ParseTerms(terms, k + 1, names))
         IN  Rest(ParseRange(terms[k], names))

\* Match._parse_part: part is <<>> for None, <<s>> for the string s; the
\* value is <<>> for None, <<list>> for a list
ParsePart(part, names) ==
    IF part = <<>> \/ Len(part[1]) = 0 \/ part[1] = TOK_NONE
    THEN [exc |-> "none", value |-> <<>>]
    ELSE LET Listed(r) ==
                 IF r.exc # "none" THEN [exc |-> r.exc, value |-> <<>>]
                 ELSE [exc |-> "none", value |-> <<r.value>>]
         IN  Listed(ParseTerms(Split(part[1], TOK_TERMSEP), 1, names))

\* tuple(self._parse_part(p) for p in parts) from part k on
RECURSIVE ParseParts(_, _, _)
ParseParts(parts, k, names) ==
    IF k > Len(parts) THEN [exc |-> "none", value |-> <<>>]
    ELSE LET Rest(t) ==
                 IF t.exc # "none" THEN t
                 ELSE LET Tuple(r) ==
                              IF r.exc # "none" THEN r
                              ELSE [exc |-> "none", value |-> <<t.value>> \o r.value]
                      IN  Tuple(ParseParts(parts, k + 1, names))
         IN  Rest(ParsePart(parts[k], names))

\* Match._parse_match
ParseMatch(expr, names) ==
    LET Padded(parts) ==
            IF Len(parts) > EXPR_MAX_TERMS
            THEN [exc |-> "MatchSyntaxError", value |-> <<>>]
            ELSE ParseParts([k \in 1..EXPR_MAX_TERMS |->
                                 IF k <= Len(parts) THEN <<parts[k]>> ELSE <<>>],
                            1, names)
    IN  Padded(Split(expr, TOK_EXPRSEP))

\* Match.match(v1, *vs) on the parsed expression ps; terms is [v1] + vs
MatchTerms(ps, terms) ==
    IF Len(terms) > EXPR_MAX_TERMS
    THEN [exc |-> "MatchError", value |-> FALSE]
    ELSE [exc |-> "none",
          value |-> \A k \in 1..EXPR_MAX_TERMS :
                        ~(/\ ps[k] # <<>>
                          /\ ~(/\ k <= Len(terms)
                               /\ \E i \in DOMAIN ps[k][1] : ps[k][1][i] = terms[k]))]

\* the lexemes of the enumerated expressions and their longest length
MaxExpr == 4

Lexemes == {"1", "3", "Five", "None", "q", TOK_EXPRSEP, TOK_TERMSEP, TOK_RANGE}

\* the expressions of the module's self-test, an octal number, and
\* expressions of four and five parts
SampleExprs ==
    { <<"1", ";", "2", ";", "3", ";", "4">>,
      <<"1", ",", "3", ",", "5", "-", "9", ";", "2", ",", "4", ",", "6", "-", "1", "0">>,
      <<"1", ";", ";", "3">>,
      <<"1", ";", "None", ";", "3">>,
      <<"One", "-", "Five", ";", ";", ";", "1", ",", "1">>,
      <<"0", "1", "0">>,
      <<"1", ";", "2", ";", "3", ";", "4", ";", "5">>,
      <<";", ";", ";", ";">> }

Names == {<<>>, ("One" :> 1) @@ ("Five" :> 5)}

MatchTermSets ==
    {<<1>>, <<4>>, <<1, 2>>, <<1, 2, 3>>, <<1, 2, 3, 4>>, <<5, 3, 3, 1>>,
     <<1, 2, 3, 4, 5>>}

InitMatch ==
    /\ content \in SeqsUpTo(Lexemes, MaxExpr) \cup SampleExprs
    /\ loc \in {[names |-> n, expr |-> <<>>] : n \in Names}
    /\ pos = 0
    /\ exc = "none"
    /\ result = PyNone
    /\ call = [op |-> "none", arg |-> <<>>, pos0 |-> 0]
    /\ world = NoWorld
    /\ pc = "expr"

\* Match(expr, names)
Constructing ==
    /\ pc = "expr"
    /\ \E r \in {ParseMatch(content, loc.names)} :
           /\ exc' = r.exc
           /\ loc' = [loc EXCEPT !.expr = r.value]
           /\ pc' = IF r.exc = "none" THEN "parsed" ELSE "raised"
    /\ call' = [op |-> "Match", arg |-> <<>>, pos0 |-> 0]
    /\ result' = PyNone
    /\ UNCHANGED <<content, pos, world>>

\* m.extract()
Extracting ==
    /\ pc = "parsed"
    /\ result' = loc.expr
    /\ exc' = "none"
    /\ call' = [op |-> "extract", arg |-> <<>>, pos0 |-> 0]
    /\ UNCHANGED <<content, pos, world, loc, pc>>

\* m.match(v1, *vs)
Matching ==
    /\ pc = "parsed"
    /\ \E terms \in MatchTermSets :
       \E r \in {MatchTerms(loc.expr, terms)} :
           /\ result' = IF r.exc = "none" THEN <<r.value>> ELSE NoValue
           /\ exc' = r.exc
           /\ call' = [op |-> "match", arg |-> terms, pos0 |-> 0]
    /\ UNCHANGED <<content, pos, world, loc, pc>>

NextMatch ==
    \/ Constructing
    \/ Extracting
    \/ Matching

SpecMatch == InitMatch /\ [][NextMatch]_vars

(***************************************************************************)
(* Claims about match expressions                                          *)
(***************************************************************************)
\* the positions of sep in s, and the n-th of them (0 before the first,
\* Len(s) + 1 after the last)
SepAt(s, sep) == {i \in DOMAIN s : s[i] = sep}

NthSep(s, sep, n) ==
    IF n = 0 THEN 0
    ELSE IF n > Cardinality(SepAt(s, sep)) THEN Len(s) + 1
    ELSE CHOOSE p \in SepAt(s, sep) :
             Cardinality({q \in SepAt(s, sep) : q < p}) = n - 1

Pieces(s, sep) == Cardinality(SepAt(s, sep)) + 1

Piece(s, sep, k) == SubSeq(s, NthSep(s, sep, k - 1) + 1, NthSep(s, sep, k) - 1)

\* a number of the expression grammar: a name, or decimal digits without a
\* leading zero
IsNumber(tok, names) ==
    \/ Len(tok) = 1 /\ tok[1] \in DOMAIN names
    \/ /\ tok # <<>>
       /\ \A i \in DOMAIN tok : IsDigit(tok[i])
       /\ Len(tok) > 1 => tok[1] # "0"

RECURSIVE Decimal(_)
Decimal(tok) ==
    IF tok = <<>> THEN 0
    ELSE DigitValue(Head(tok)) * Pow(10, Len(tok) - 1) + Decimal(Tail(tok))

NumberOf(tok, names) ==
    IF Len(tok) = 1 /\ tok[1] \in DOMAIN names THEN names[tok[1]] ELSE Decimal(tok)

IsTerm(t, names) ==
    /\ Pieces(t, TOK_RANGE) \in {1, 2}
    /\ \A k \in 1..Pieces(t, TOK_RANGE) : IsNumber(Piece(t, TOK_RANGE, k), names)

\* the integers of a term: the number, or a..b with both ends
TermList(t, names) ==
    IF Pieces(t, TOK_RANGE) = 1 THEN <<NumberOf(t, names)>>
    ELSE LET a == NumberOf(Piece(t, TOK_RANGE, 1), names)
             b == NumberOf(Piece(t, TOK_RANGE, 2), names)
         IN  IF a <= b THEN [i \in 1..(b - a + 1) |-> a + (i - 1)] ELSE <<>>

\* the lists of terms k..n of a part, one after the other
RECURSIVE TermLists(_, _, _)
TermLists(part, k, names) ==
    IF k > Pieces(part, TOK_TERMSEP) THEN <<>>
    ELSE TermList(Piece(part, TOK_TERMSEP, k), names) \o TermLists(part, k + 1, names)

\* part k of the expression in content: absent, or its text
PartAbsent(k) ==
    \/ k > Pieces(content, TOK_EXPRSEP)
    \/ Piece(content, TOK_EXPRSEP, k) = <<>>
    \/ Piece(content, TOK_EXPRSEP, k) = <<"None">>

PartIsTerms(k) ==
    /\ ~PartAbsent(k)
    /\ \A j \in 1..Pieces(Piece(content, TOK_EXPRSEP, k), TOK_TERMSEP) :
           IsTerm(Piece(Piece(content, TOK_EXPRSEP, k), TOK_TERMSEP, j), loc.names)

\* what part k stands for: <<>> for None, <<list>> otherwise
PartMeaning(k) ==
    IF PartAbsent(k) THEN <<>>
    ELSE <<TermLists(Piece(content, TOK_EXPRSEP, k), 1, loc.names)>>

ExprInGrammar ==
    /\ Pieces(content, TOK_EXPRSEP) <= EXPR_MAX_TERMS
    /\ \A k \in 1..EXPR_MAX_TERMS : PartAbsent(k) \/ PartIsTerms(k)

C24_WitnessRange ==
    /\ call.op = "extract"
    /\ content = <<"1", "-", "3">>
    /\ result = <<<<<<1, 2, 3>>>>, <<>>, <<>>, <<>>>>

C24_WitnessMatch ==
    /\ call.op = "match"
    /\ content = <<"1", ";", "3">>
    /\ call.arg = <<1, 2>>
    /\ result = <<FALSE>>

(***************************************************************************)
(* Claims about the bytes of a tile record                                 *)
(***************************************************************************)
\* 1 for a condition that holds, 0 otherwise
Bytes(b) == IF b THEN 1 ELSE 0

\* the fields of the record at call.pos0 by the bits of its header bytes
RecordActive == HdrBit(Hdr1, 1)
RecordWide == HdrBit(Hdr1, 5)
RecordWall == HdrBit(Hdr1, 2)
RecordLiquid == (Hdr1 \div 8) % 4 # 0
RecordRleCode == (Hdr1 \div 64) % 4

RecordType ==
    IF RecordWide THEN content[TypeEnd - 1] + 256 * content[TypeEnd]
    ELSE content[TypeEnd]

RecordImportant ==
    /\ RecordActive
    /\ RecordType < Len(loc.importantTiles)
    /\ loc.importantTiles[RecordType + 1]

RecordTilePaint == RecordActive /\ HdrBit(Hdr3, 3)
RecordWallPaint == RecordWall /\ HdrBit(Hdr3, 4)

\* the reads of the record in the claimed order, each with its condition
RecordFields ==
    << <<"header1", TRUE>>, <<"header2", HasHdr2>>, <<"header3", HasHdr3>>,
       <<"Type", RecordActive>>, <<"U", RecordImportant>>, <<"V", RecordImportant>>,
       <<"TileColor", RecordTilePaint>>, <<"Wall", RecordWall>>,
       <<"WallColor", RecordWallPaint>>, <<"LiquidAmount", RecordLiquid>>,
       <<"rle", RecordRleCode # 0>> >>

RECURSIVE FieldsRead(_)
FieldsRead(fields) ==
    IF fields = <<>> THEN <<>>
    ELSE (IF Head(fields)[2] THEN <<Head(fields)[1]>> ELSE <<>>)
           \o FieldsRead(Tail(fields))

\* C25: Tile.FromStream reads header byte 2 iff bit 0 of header byte 1 is
\* set and header byte 3 iff header byte 2 was read and its bit 0 is set,
\* and advances the stream by exactly 1 + [header2] + [header3]
\* + active*(1 + [16-bit type] + 4*[important type] + [tile-paint bit])
\* + wall*(1 + [wall-paint bit]) + [liquid != None] + RLE width (0, 1 or 2
\* bytes), the fields read in the order type, u, v, tile colour, wall, wall
\* colour, liquid amount, RLE.
C25_TileRecordBytes ==
    TileDecoded =>
        /\ FieldRead("header2") <=> HasHdr2
        /\ FieldRead("header3") <=> HasHdr3
        /\ [k \in DOMAIN result.log |-> result.log[k][1]] = FieldsRead(RecordFields)
        /\ \E width \in 0..2 :
               /\ RecordRleCode \in 0..2 => width = RecordRleCode
               /\ RecordRleCode = 3 => width > 0
               /\ pos - call.pos0 =
                      1 + Bytes(HasHdr2) + Bytes(HasHdr3)
                        + Bytes(RecordActive)
                            * (1 + Bytes(RecordWide) + 4 * Bytes(RecordImportant)
                                 + Bytes(RecordTilePaint))
                        + Bytes(RecordWall) * (1 + Bytes(HdrBit(Hdr3, 4)))
                        + Bytes(RecordLiquid)
                        + width

\* a record with every field: three headers, type, u, v, both paints, wall,
\* liquid amount and a one-byte run length, 13 bytes
C25_WitnessEveryField ==
    /\ TileDecoded
    /\ Len(result.log) = 11
    /\ pos - call.pos0 = 13

\* a record of the header byte alone
C25_WitnessHeaderOnly ==
    /\ TileDecoded
    /\ Hdr1 = 0
    /\ pos - call.pos0 = 1

\* a record whose header 2 has bit 0 clear while header 1 has it set: no
\* header 3
C25_WitnessNoHeader3 ==
    /\ TileDecoded
    /\ HasHdr2
    /\ ~HasHdr3
    /\ ~FieldRead("header3")

(***************************************************************************)
(* Claims about the map grid                                               *)
(***************************************************************************)
\* LoadMapTiles left both loops
MapLoaded ==
    /\ call.op = "LoadMapTiles"
    /\ pc = "done"

RawCells == {<<e.x, e.y>> : e \in loc.raw}

\* C26: Map.LoadMapTiles(width, height) on a well-formed cell stream records
\* an entry for every cell (x, y) with 0 <= x < width and 0 <= y < height,
\* processing every row from column 0, and records no entry with x >= width
\* or y >= height.
C26_MapGridCoverage ==
    MapLoaded =>
        /\ \A x \in 0..(loc.width - 1) : \A y \in 0..(loc.height - 1) :
               <<x, y>> \in RawCells
        /\ \A cell \in RawCells : cell[1] < loc.width /\ cell[2] < loc.height

\* what the loader does: x is set to 0 once, before both loops, so after the
\* first row the inner loop never runs again and only row 0 has entries
C26_FirstRowOnly ==
    MapLoaded =>
        /\ \A cell \in RawCells : cell[2] = 0
        /\ loc.x >= loc.width
        /\ loc.y = loc.height

\* six one-byte cells for a grid of 3 by 2: three are read, row 1 is empty
C26_WitnessRowSkipped ==
    /\ MapLoaded
    /\ content = <<0, 0, 0, 0, 0, 0>>
    /\ pos = 3
    /\ RawCells = {<<0, 0>>, <<1, 0>>, <<2, 0>>}

\* a run that passes the end of the row: an entry at x = width
C26_WitnessPastRow ==
    /\ MapLoaded
    /\ \E cell \in RawCells : cell[1] >= loc.width

\* a cell whose header was parsed, with bit 5 of header 1 clear
ImplicitLight ==
    /\ CellParsed
    /\ (content[call.pos0 + 1] \div 32) % 2 = 0

\* C27: in Map.LoadMapTiles, when bit 5 of the first header byte is clear
\* (light is the implicit 255), expanding an RLE run of k additional cells
\* reads no further bytes from the stream, so the next cell header starts
\* immediately after the RLE count field.
C27_ImplicitLightRun ==
    (ImplicitLight /\ exc = "none") =>
        /\ result.light = 255
        /\ pos = call.pos0 + LogBytes(result.log)

\* what the loader does: the implicit light is 255, never the 256 the run
\* is tested for, so every cell of a run outside section 0 reads one byte
C27_RunReadsLight ==
    (ImplicitLight /\ exc = "none") =>
        /\ result.light = 255
        /\ pos = call.pos0 + LogBytes(result.log)
                   + (IF result.section # 0 /\ result.rle > 0 THEN result.rle ELSE 0)

\* a tile cell with implicit light and a run of one: header, type and run
\* length are 3 bytes, the cell consumed 4
C27_WitnessExtraByte ==
    /\ ImplicitLight
    /\ exc = "none"
    /\ result.section = 1
    /\ result.rle = 1
    /\ LogBytes(result.log) = 3
    /\ pos = call.pos0 + 4

\* an empty cell (section 0) with a run: no byte beyond the run length
C27_WitnessEmptyRun ==
    /\ ImplicitLight
    /\ exc = "none"
    /\ result.section = 0
    /\ result.rle > 0
    /\ pos = call.pos0 + LogBytes(result.log)

(***************************************************************************)
(* Claims about skipped sections                                           *)
(***************************************************************************)
\* the well-formed worlds loaded under every choice of sections: one of
\* version 148 and one of version 139
SkippingFiles == {WorldFile(BaseFile), WorldFile([BaseFile EXCEPT !.version = 139])}

\* a step of World.Load on one of them
SkippingLoad ==
    /\ content \in SkippingFiles
    /\ call.op \notin {"__init__", "GetTile"}

\* the sections left out stay unloaded
SkippedUnloaded ==
    /\ ~world.should_load_tiles => world.tiles = <<>>
    /\ ~world.should_load_chests => world.chests = <<>>
    /\ ~world.should_load_signs => world.signs = <<>>
    /\ ~world.should_load_npcs => world.npcs = <<>> /\ world.mobs = <<>>
    /\ ~world.should_load_tents => world.tents = <<>>

\* the load reached its end with the flags and the footer of the file
LoadedAsFull ==
    /\ exc = "none"
    /\ pc = "done"
    /\ call.arg[1].after = call.arg[1].pointer
    /\ world.flags =
           <<LoadFlags(world.header[1], content, GetFlagsPointer(world.header[1])).flags>>
    /\ world.footer =
           <<LoadFooter(world.header[1], content, GetFooterPointer(world.header[1])).footer>>
    /\ SkippedUnloaded

\* C28: for every well-formed world file of version >= 102 (both below and
\* at or above 140) and every combination of the load_tiles, load_chests,
\* load_signs, load_npcs and load_tents options, World.Load positions the
\* stream at the footer pointer before reading the footer and completes,
\* yielding the same flags and footer as a load with all sections enabled;
\* skipped sections remain unloaded.
C28_SectionSkipping ==
    SkippingLoad =>
        /\ pc # "raised"
        /\ call.op = "LoadFooter" => LoadedAsFull

\* what the loader does: the claim holds from version 140 on, and below it
\* whenever the NPCs are loaded
C28_SkippingWithPointer ==
    (SkippingLoad /\ (world.header[1].Version >= Version140 \/ world.should_load_npcs)) =>
        /\ pc # "raised"
        /\ call.op = "LoadFooter" => LoadedAsFull

\* version 139 without the NPCs: the stream is sent to INVALID_POINTER,
\* clamped to 0, and the assert before the footer fails
C28_WitnessInvalidPointer ==
    /\ SkippingLoad
    /\ world.header[1].Version = 139
    /\ ~world.should_load_npcs
    /\ call.op = "LoadFooter"
    /\ call.pos0 = 0
    /\ exc = "AssertionError"
    /\ pc = "raised"

\* version 148 without the tile entities: the footer is read at its pointer
C28_WitnessSkippedTents ==
    /\ SkippingLoad
    /\ world.header[1].Version = 148
    /\ ~world.should_load_tents
    /\ call.op = "LoadFooter"
    /\ LoadedAsFull

(***************************************************************************)
(* Claims about the run length of a tile record                            *)
(***************************************************************************)
\* C29: for every header byte 1 and every RLE field content (RLE width codes
\* 0, 1, 2 and the reserved code 3), the rle value returned by
\* Tile.FromStream is >= 0, so the caller always writes at least the one
\* decoded cell plus rle further cells.
C29_RleNonNegative ==
    TileDecoded => result.rle >= 0

\* what the decoder does: code 0 gives 0, code 1 an unsigned byte, codes 2
\* and 3 a signed 16-bit number
C29_RleByCode ==
    TileDecoded =>
        CASE RecordRleCode = 0 -> result.rle = 0
          [] RecordRleCode = 1 -> result.rle = content[pos]
          [] OTHER -> result.rle = Int16At(pos - 2)

\* the run-length field ff ff under code 2 returned as -1
C29_WitnessNegative ==
    /\ TileDecoded
    /\ RecordRleCode = 2
    /\ result.rle = -1

\* the same field under the reserved code 3
C29_WitnessReserved ==
    /\ TileDecoded
    /\ RecordRleCode = 3
    /\ result.rle = -1

(***************************************************************************)
(* Claims about the position of the reader                                 *)
(***************************************************************************)
ReadOps ==
    {o.op : o \in FixedOps}
      \cup {"readBoolean", "readPacked7Int", "readString", "readBitArray"}

\* C30: after any sequence of read operations (fixed-width reads,
\* readString, readPacked7Int, readBitArray) and seeks on a BinaryString,
\* including reads that fail because too few bytes remain, the position
\* satisfies 0 <= pos <= len(buf) and the buffer contents are unchanged; a
\* failed read leaves the position where it was before the read.
C30_ReaderPosition ==
    /\ 0 <= pos
    /\ pos <= Len(content)
    /\ (call.op \in ReadOps /\ exc # "none") => pos = call.pos0

\* what the reader does: a fixed-width read that fails leaves the position;
\* a position past the end comes only from a failed readString, whose
\* _next moves the position before it tests it
C30_FixedReadsKeepPosition ==
    /\ 0 <= pos
    /\ (call.op \in {o.op : o \in FixedOps} \cup {"readBoolean"} /\ exc # "none") =>
           pos = call.pos0
    /\ (call.op \in {"readPacked7Int", "readBitArray"} /\ exc # "none") =>
           call.pos0 <= pos
    /\ (call.op \in ReadOps \ {"readString"} /\ call.pos0 <= Len(content)) =>
           pos <= Len(content)

\* no operation of the reader changes the buffer
C30_BufferUnchanged ==
    [][content' = content]_vars

\* a readString whose length prefix asks for more than is left: EOFError
\* with the position past the end of the buffer
C30_WitnessPastEnd ==
    /\ call.op = "readString"
    /\ exc = "EOFError"
    /\ pos > Len(content)

\* a readPacked7Int that ran off the buffer after its first byte: the
\* position stays after the bytes it read
C30_WitnessPartial ==
    /\ call.op = "readPacked7Int"
    /\ exc = "struct.error"
    /\ pos > call.pos0

====
